---------------------------- MODULE Spec2Model ----------------------------
(***************************************************************************)
(* A model of pip-services-rpc-node: the HTTP connection resolver, the     *)
(* HTTP endpoint, the REST service and client bases, the direct client and *)
(* the response helpers.                                                   *)
(*                                                                         *)
(* Strings are sequences of one-character strings, so that concatenation   *)
(* and URI parsing are computed and not assumed.  A nullable value is an   *)
(* option: None is <<>>, Some(v) is <<v>>.                                  *)
(***************************************************************************)
EXTENDS Integers, Sequences, FiniteSets, TLC

VARIABLES
    resolverConnection,   \* the configured ConnectionParams object, or null
    resolverCall,         \* the last call of resolve/register and its callback
    serverRoutes,         \* the routes mounted on the server
    exchange,             \* the last request dispatched and what handling it did
    endpoints,            \* the HttpEndpoint objects, by identity
    services,             \* the RestService objects
    restClient,           \* a RestClient
    directClient,         \* a DirectClient
    last,                 \* the last call made on a component and what it did
    steps,                \* the number of calls made so far
    scenario,             \* the component family this run exercises
    routeService,         \* a service that mounts routes: its kind, base route, commands
    mounted,              \* the routes the service mounted on its endpoint's server
    request,              \* the last request sent to that server and how it was routed
    callSetup,            \* a REST client's base route and retries, and whether its server is up
    restCall              \* the call the REST client is making or made last

resolverVars == <<resolverConnection, resolverCall>>
httpVars == <<serverRoutes, exchange>>
lifeVars == <<endpoints, services, restClient, directClient, last, steps, scenario>>
routeVars == <<routeService, mounted, request>>
callVars == <<callSetup, restCall>>
vars == <<resolverVars, httpVars, lifeVars, routeVars, callVars>>

None == <<>>
Some(v) == <<v>>
IsNull(o) == o = None
Val(o) == o[1]

\* ------------------------------------------------------------------------
\* Strings
\* ------------------------------------------------------------------------
Digits == <<"0", "1", "2", "3", "4", "5", "6", "7", "8", "9">>

RECURSIVE IntToStr(_)
\* JavaScript string conversion of a non-negative integer ('' + port).
IntToStr(n) == IF n < 10 THEN <<Digits[n + 1]>>
               ELSE IntToStr(n \div 10) \o <<Digits[(n % 10) + 1]>>

DigitVal(c) == CHOOSE d \in 0..9 : Digits[d + 1] = c
IsDigit(c) == \E d \in 1..10 : Digits[d] = c

RECURSIVE StrToInt(_)
\* IntegerConverter.toInteger of a digit string; 0 for anything else.
StrToInt(s) == IF s = <<>> THEN 0
               ELSE StrToInt(SubSeq(s, 1, Len(s) - 1)) * 10 + DigitVal(s[Len(s)])

AllDigits(s) == \A i \in 1..Len(s) : IsDigit(s[i])

\* The least index of s at or after from that satisfies Test, or Len(s)+1.
IndexFrom(s, from, Test(_)) ==
    IF \E i \in from..Len(s) : Test(s[i])
    THEN CHOOSE i \in from..Len(s) : Test(s[i]) /\ \A j \in from..(i - 1) : ~Test(s[j])
    ELSE Len(s) + 1

HTTP == <<"h", "t", "t", "p">>
HTTPS == <<"h", "t", "t", "p", "s">>
SLASHES == <<":", "/", "/">>
NULLSTR == <<"n", "u", "l", "l">>

\* ------------------------------------------------------------------------
\* url.parse (Node's legacy parser), for URIs over lower-case letters,
\* digits and the characters ":", "/", "."
\* ------------------------------------------------------------------------
IsProtoChar(c) == c \notin {":", "/", "?", "#", "@"}

\* Length of the match of /^([a-z0-9.+-]+:)/ at the start of u, 0 if none.
ProtoLen(u) ==
    LET i == IndexFrom(u, 1, LAMBDA c : ~IsProtoChar(c))
    IN  IF i > 1 /\ i <= Len(u) /\ u[i] = ":" THEN i ELSE 0

SlashedProtocols == {HTTP \o <<":">>, HTTPS \o <<":">>}

\* Index of the colon of a trailing /:[0-9]*$/ in host, 0 if none.
PortColon(host) ==
    IF \E i \in 1..Len(host) : host[i] = ":" /\ AllDigits(SubSeq(host, i + 1, Len(host)))
    THEN CHOOSE i \in 1..Len(host) :
            /\ host[i] = ":"
            /\ AllDigits(SubSeq(host, i + 1, Len(host)))
            /\ \A j \in 1..(i - 1) :
                  ~(host[j] = ":" /\ AllDigits(SubSeq(host, j + 1, Len(host))))
    ELSE 0

\* The host of a URI split at the colon of its port (pc, 0 for no port).
SplitHost(hasHost, host, pc) ==
    [hostname |-> IF ~hasHost THEN None
                  ELSE IF pc = 0 THEN Some(host) ELSE Some(SubSeq(host, 1, pc - 1)),
     port     |-> IF hasHost /\ pc # 0 /\ pc < Len(host)
                  THEN Some(SubSeq(host, pc + 1, Len(host))) ELSE None]

\* The host of what follows the protocol and the slashes: up to the first
\* of "/", "?", "#".
ParseHost(hasHost, rest) ==
    SplitHost(hasHost,
              SubSeq(rest, 1, IndexFrom(rest, 1, LAMBDA c : c \in {"/", "?", "#"}) - 1),
              PortColon(SubSeq(rest, 1,
                               IndexFrom(rest, 1, LAMBDA c : c \in {"/", "?", "#"}) - 1)))

\* What follows the protocol (proto, null if none): "//" announces a host,
\* and a protocol other than http and https has one without it.
ParseRest(proto, rest) ==
    IF Len(rest) >= 2 /\ rest[1] = "/" /\ rest[2] = "/"
    THEN ParseHost(TRUE, SubSeq(rest, 3, Len(rest)))
    ELSE ParseHost(~IsNull(proto) /\ Val(proto) \notin SlashedProtocols, rest)

\* A URI split after its protocol of length pl
ParseProtocol(u, pl) ==
    [protocol |-> IF pl = 0 THEN None ELSE Some(SubSeq(u, 1, pl)),
     address  |-> ParseRest(IF pl = 0 THEN None ELSE Some(SubSeq(u, 1, pl)),
                            SubSeq(u, pl + 1, Len(u)))]

\* The fields of a parsed URI
Address(parsed) ==
    [protocol |-> parsed.protocol, hostname |-> parsed.address.hostname,
     port |-> parsed.address.port]

\* url.parse(uri): the protocol (with its colon), hostname and port of a URI,
\* each null when the parser leaves it unset.
UrlParse(u) == Address(ParseProtocol(u, ProtoLen(u)))

\* String.prototype.replace(':', ''): removes the first colon.
RemoveFirstColon(s) ==
    LET i == IndexFrom(s, 1, LAMBDA c : c = ":")
    IN  IF i > Len(s) THEN s ELSE SubSeq(s, 1, i - 1) \o SubSeq(s, i + 1, Len(s))

\* ------------------------------------------------------------------------
\* Errors
\* ------------------------------------------------------------------------
\* An error value: its class, its code and the one detail it carries.
Error(type, code, detail) == [type |-> type, code |-> code, detail |-> detail]
NoError == Error("null", "", None)
ConfigException(code, detail) == Error("ConfigException", code, detail)
ConnectionException(code, detail) == Error("ConnectionException", code, detail)
\* The error a discovery service hands back when a key cannot be resolved.
DiscoveryError == Error("DiscoveryError", "DISCOVERY_FAILED", None)

\* ------------------------------------------------------------------------
\* ConnectionParams and HttpConnectionResolver
\* ------------------------------------------------------------------------
\* ConnectionParams: uri, protocol and host are nullable strings, port is the
\* integer getPort() returns (0 when unset), discovery_key tells useDiscovery().
ConnectionParams(uri, protocol, host, port, key) ==
    [uri |-> uri, protocol |-> protocol, host |-> host, port |-> port,
     discovery_key |-> key]

\* connection.getProtocol(defaultValue)
getProtocol(c, defaultValue) == IF IsNull(c.protocol) THEN defaultValue ELSE Val(c.protocol)

\* connection.getHost(): the empty string is falsy and reads as null.
getHost(c) == IF IsNull(c.host) \/ c.host = Some(<<>>) THEN None ELSE c.host

\* validateConnection without its check of the host
validateConnection_noHostCheck(connection) ==
    IF IsNull(connection)
    THEN ConfigException("NO_CONNECTION", None)
    ELSE LET c == Val(connection)
         IN  IF ~IsNull(c.uri) THEN NoError
             ELSE IF getProtocol(c, HTTP) # HTTP
                  THEN ConfigException("WRONG_PROTOCOL", Some(getProtocol(c, HTTP)))
             ELSE IF c.port = 0
                  THEN ConfigException("NO_PORT", None)
             ELSE NoError

\* validateConnection(correlationId, connection): the error, or NoError.
validateConnection(connection) ==
    IF IsNull(connection)
    THEN ConfigException("NO_CONNECTION", None)
    ELSE LET c == Val(connection)
         IN  IF ~IsNull(c.uri) THEN NoError
             ELSE IF getProtocol(c, HTTP) # HTTP
                  THEN ConfigException("WRONG_PROTOCOL", Some(getProtocol(c, HTTP)))
             ELSE IF IsNull(getHost(c))
                  THEN ConfigException("NO_HOST", None)
             ELSE IF c.port = 0
                  THEN ConfigException("NO_PORT", None)
             ELSE NoError

\* The text of a nullable string in a concatenation ("" + null is "null").
Concat(o) == IF IsNull(o) THEN NULLSTR ELSE Val(o)

\* updateConnection that leaves the port out of the uri it builds
updateConnection_noPort(c) ==
    IF IsNull(c.uri) \/ c.uri = Some(<<>>)
    THEN [c EXCEPT !.uri = Some(getProtocol(c, HTTP) \o SLASHES \o Concat(getHost(c)))]
    ELSE c

\* updateConnection that builds the uri from the parts whatever the uri is
updateConnection_rebuild(c) ==
    [c EXCEPT !.uri = Some(getProtocol(c, HTTP) \o SLASHES \o Concat(getHost(c))
                           \o <<":">> \o IntToStr(c.port))]

\* updateConnection(connection): the connection as the method leaves it.
updateConnection(c) ==
    IF IsNull(c.uri) \/ c.uri = Some(<<>>)
    THEN LET base == getProtocol(c, HTTP) \o SLASHES \o Concat(getHost(c))
             uri == IF c.port # 0 THEN base \o <<":">> \o IntToStr(c.port) ELSE base
         IN  [c EXCEPT !.uri = Some(uri)]
    ELSE LET address == UrlParse(Val(c.uri))
             protocol == RemoveFirstColon(Concat(address.protocol))
         IN  [c EXCEPT !.protocol = Some(protocol),
                       !.host = address.hostname,
                       !.port = IF IsNull(address.port) THEN 0
                                ELSE StrToInt(Val(address.port))]

\* The body of resolve's callback: given what the inner ConnectionResolver
\* delivered, the error and the connection handed to the caller.
resolve(innerErr, innerConn) ==
    LET err == IF innerErr = NoError THEN validateConnection(innerConn) ELSE innerErr
    IN  [err |-> err,
         connection |-> IF err = NoError /\ ~IsNull(innerConn)
                        THEN Some(updateConnection(Val(innerConn)))
                        ELSE innerConn]

\* ------------------------------------------------------------------------
\* The resolver as a state machine: one HttpConnectionResolver whose inner
\* ConnectionResolver holds at most one configured connection.
\* ------------------------------------------------------------------------

HostA == <<"a">>
HostB == <<"b", ".", "c">>

\* The URIs, protocols, hosts and ports a configuration is drawn from.
ConfigUris ==
    {None, Some(<<>>),
     Some(HTTP \o SLASHES \o HostA \o <<":", "8", "0">>),
     Some(HTTPS \o SLASHES \o HostB \o <<"/", "x">>),
     Some(HostA \o <<":", "8", "0">>)}
ConfigProtocols == {None, Some(HTTP), Some(HTTPS)}
ConfigHosts == {None, Some(HostA)}
MaxPort == 12
ConfigPorts == {0, 7, MaxPort}

ConfiguredConnections ==
    {ConnectionParams(u, p, h, n, k) :
        u \in ConfigUris, p \in ConfigProtocols, h \in ConfigHosts,
        n \in ConfigPorts, k \in BOOLEAN}

\* What a discovery service answers for a key: a host and a port.
DiscoveryResults == {ConnectionParams(None, None, Some(HostB), 7, FALSE)}

\* ConfigParams.mergeConfigs(connection, result): result's values win.
mergeConfigs(c, r) ==
    [uri |-> IF IsNull(r.uri) THEN c.uri ELSE r.uri,
     protocol |-> IF IsNull(r.protocol) THEN c.protocol ELSE r.protocol,
     host |-> IF IsNull(r.host) THEN c.host ELSE r.host,
     port |-> IF r.port = 0 THEN c.port ELSE r.port,
     discovery_key |-> c.discovery_key]

\* What the inner ConnectionResolver.resolve can deliver: null when nothing
\* is configured, the configured object itself when it names no discovery
\* key, and otherwise what discovery answers (an error, nothing, or a new
\* object merged from the configuration and the answer).
InnerResolve(conn) ==
    IF IsNull(conn) THEN {[err |-> NoError, connection |-> None, same |-> FALSE]}
    ELSE IF ~Val(conn).discovery_key
    THEN {[err |-> NoError, connection |-> conn, same |-> TRUE]}
    ELSE {[err |-> DiscoveryError, connection |-> None, same |-> FALSE],
          [err |-> NoError, connection |-> None, same |-> FALSE]}
         \cup {[err |-> NoError, connection |-> Some(mergeConfigs(Val(conn), r)),
                same |-> FALSE] : r \in DiscoveryResults}

ResolverIdle ==
    [op |-> "none", innerErr |-> NoError, before |-> None, same |-> FALSE,
     err |-> NoError, connection |-> None, published |-> FALSE]


\* HttpConnectionResolver.resolve
Resolver_resolve ==
    \E inner \in InnerResolve(resolverConnection) :
        LET out == resolve(inner.err, inner.connection)
        IN  /\ resolverCall' = [op |-> "resolve", innerErr |-> inner.err,
                                before |-> inner.connection, same |-> inner.same,
                                err |-> out.err, connection |-> out.connection,
                                published |-> FALSE]
            /\ resolverConnection' =
                  IF inner.same THEN out.connection ELSE resolverConnection
            /\ UNCHANGED <<httpVars, lifeVars, routeVars, callVars>>

\* The body of register's callback: validate what the inner resolver
\* delivered and publish it to discovery, which can fail only when the
\* connection names a discovery key.
registerConnection(inner, fails) ==
    LET err == IF inner.err = NoError THEN validateConnection(inner.connection)
               ELSE inner.err
        publish == err = NoError
    IN  [err |-> IF publish /\ fails THEN DiscoveryError ELSE err,
         published |-> publish /\ ~fails]

CanFailToPublish(inner) ==
    /\ inner.err = NoError
    /\ validateConnection(inner.connection) = NoError
    /\ Val(inner.connection).discovery_key

\* HttpConnectionResolver.register
Resolver_register ==
    \E inner \in InnerResolve(resolverConnection), fails \in BOOLEAN :
        LET out == registerConnection(inner, fails)
        IN  /\ fails => CanFailToPublish(inner)
            /\ resolverCall' = [op |-> "register", innerErr |-> inner.err,
                                before |-> inner.connection, same |-> inner.same,
                                err |-> out.err, connection |-> inner.connection,
                                published |-> out.published]
            /\ UNCHANGED <<resolverConnection, httpVars, lifeVars, routeVars, callVars>>

\* The lists the inner ConnectionResolver.resolveAll can deliver: up to
\* MaxList connections, each valid, without host, without port, or with a uri
MaxList == 3
ListedConnections ==
    {ConnectionParams(None, None, Some(HostA), 7, FALSE),
     ConnectionParams(None, None, None, 7, FALSE),
     ConnectionParams(None, Some(HTTP), Some(HostA), 0, FALSE),
     ConnectionParams(Some(HTTP \o SLASHES \o HostA \o <<":", "8", "0">>), None, None, 0, FALSE)}
ConnectionLists == UNION {[1..n -> ListedConnections] : n \in 0..MaxList}

RECURSIVE resolveAllLoop(_, _, _)

\* A loop body that updates every valid connection, an earlier error or not
resolveAllStep_keepsUpdating(err, conns, i) ==
    resolveAllLoop(err,
                   IF validateConnection(Some(conns[i])) = NoError
                   THEN [conns EXCEPT ![i] = updateConnection(@)] ELSE conns,
                   i + 1)

\* The body of resolveAll's loop after its validation (err is the error so
\* far): the connection is updated when there is no error
resolveAllStep(err, conns, i) ==
    resolveAllLoop(err,
                   IF err = NoError
                   THEN [conns EXCEPT ![i] = updateConnection(@)] ELSE conns,
                   i + 1)

\* The loop of resolveAll's callback from the i-th connection: the error and
\* the list handed to the caller
resolveAllLoop(err, conns, i) ==
    IF i > Len(conns) THEN [err |-> err, connections |-> conns]
    ELSE resolveAllStep(IF err = NoError THEN validateConnection(Some(conns[i]))
                        ELSE err,
                        conns, i)

\* HttpConnectionResolver.resolveAll of a resolver configured with a list of
\* connections instead of a single one: the inner resolver delivers an error
\* or a list
Resolver_resolveAll ==
    \E innerErr \in {NoError, DiscoveryError}, conns \in ConnectionLists :
        /\ IsNull(resolverConnection)
        /\ resolverCall' = [op |-> "resolveAll", innerErr |-> innerErr,
                            before |-> conns, same |-> FALSE,
                            err |-> resolveAllLoop(innerErr, conns, 1).err,
                            connection |-> resolveAllLoop(innerErr, conns, 1).connections,
                            published |-> FALSE]
        /\ UNCHANGED <<resolverConnection, httpVars, lifeVars, routeVars, callVars>>

ResolverNext == Resolver_resolve \/ Resolver_register \/ Resolver_resolveAll

\* ------------------------------------------------------------------------
\* HttpResponseSender and the response object it writes to
\* ------------------------------------------------------------------------
\* A response: the status code set so far, how many times a response was
\* written to the wire, and the body of the last write.
NewResponse == [statusCode |-> 200, sent |-> 0, body |-> None]

\* res.status(code): sets the status code and writes nothing.
res_status(res, code) == [res EXCEPT !.statusCode = code]
\* res.send(code): writes a response with that status and no body.
res_send(res, code) == [res EXCEPT !.statusCode = code, !.sent = @ + 1, !.body = None]
\* res.json(object): writes the object as JSON under the current status.
res_json(res, object) == [res EXCEPT !.sent = @ + 1, !.body = Some(object)]

\* An error object as the helpers read it: code, status and message, each
\* undefined (None) or set, the names of the other properties it has, and
\* the body a restify error carries (its code and message), if any.
ErrorWith(code, status, message, keys, body) ==
    [code |-> code, status |-> status, message |-> message, keys |-> keys,
     body |-> body]
ErrorObject(code, status, message) == ErrorWith(code, status, message, {}, None)

Default(o, d) == IF IsNull(o) THEN d ELSE Val(o)

\* ApplicationException.unwrapError: a restify error stands for its body.
unwrapError(error) ==
    IF IsNull(error.body) THEN error
    ELSE ErrorWith(Val(error.body).code, None, Val(error.body).message, {}, None)

\* The properties _.pick keeps, besides code, status and message
PickedKeys == {"name", "details", "component", "stack", "cause"}

\* A payload that carries every property of the error
ErrorPayload_noPick(error) ==
    [kind |-> "error",
     code |-> Default(error.code, "Undefined"),
     status |-> Default(error.status, 500),
     message |-> Default(error.message, "Unknown error"),
     keys |-> error.keys]

\* The JSON payload of sendError: _.pick, then _.defaults.
ErrorPayload(error) ==
    [kind |-> "error",
     code |-> Default(error.code, "Undefined"),
     status |-> Default(error.status, 500),
     message |-> Default(error.message, "Unknown error"),
     keys |-> error.keys \cap PickedKeys]

\* HttpResponseSender.sendError(req, res, error); a null error reads as {}.
sendError(res, error) ==
    res_json(res_status(res, ErrorPayload(unwrapError(
                 IF IsNull(error) THEN ErrorObject(None, None, None) ELSE Val(error))).status),
             ErrorPayload(unwrapError(
                 IF IsNull(error) THEN ErrorObject(None, None, None) ELSE Val(error))))

\* sendResult that answers a null result like any other
sendResult_alwaysJson(res, err, result) ==
    IF ~IsNull(err) THEN sendError(res, err)
    ELSE res_json(res, result)

\* HttpResponseSender.sendResult(req, res)(err, result)
sendResult(res, err, result) ==
    IF ~IsNull(err) THEN sendError(res, err)
    ELSE IF IsNull(result) THEN res_send(res, 204)
    ELSE res_json(res, Val(result))

\* HttpResponseSender.sendEmptyResult(req, res)(err)
sendEmptyResult(res, err, result) ==
    IF ~IsNull(err) THEN sendError(res, err)
    ELSE res_send(res, 204)

\* HttpResponseSender.sendCreatedResult(req, res)(err, result)
sendCreatedResult(res, err, result) ==
    IF ~IsNull(err) THEN sendError(res, err)
    ELSE IF IsNull(result) THEN res_status(res, 204)
    ELSE res_json(res_status(res, 201), Val(result))

\* HttpResponseSender.sendDeletedResult(req, res)(err, result)
sendDeletedResult(res, err, result) ==
    IF ~IsNull(err) THEN sendError(res, err)
    ELSE IF IsNull(result) THEN res_status(res, 204)
    ELSE res_json(res_status(res, 200), Val(result))

Helpers ==
    {"sendResult", "sendEmptyResult", "sendCreatedResult", "sendDeletedResult",
     "sendError"}

\* The callback a handler hands to its controller, applied to (err, result).
ApplyHelper(helper, res, err, result) ==
    CASE helper = "sendResult" -> sendResult(res, err, result)
      [] helper = "sendEmptyResult" -> sendEmptyResult(res, err, result)
      [] helper = "sendCreatedResult" -> sendCreatedResult(res, err, result)
      [] helper = "sendDeletedResult" -> sendDeletedResult(res, err, result)
      [] helper = "sendError" -> sendError(res, err)

\* ------------------------------------------------------------------------
\* HttpEndpoint.registerRoute and the dispatch of a request to a route
\* ------------------------------------------------------------------------

\* A schema: the properties it requires and whether it holds the body to
\* the body's own schema.  A route's schema is such a record or null.
Schemas ==
    {None, Some([required |-> {"dummy_id"}, checksBody |-> FALSE]),
     Some([required |-> {"body"}, checksBody |-> TRUE])}

RoutePaths == {<<"/", "d">>}
Methods == {"get", "DELETE"}

\* A value a controller returns, or a request carries as its body.
Value(id, valid) == [kind |-> "value", id |-> id, valid |-> valid]
Bodies == {None, Some(Value(1, TRUE)), Some(Value(2, FALSE))}
Results == {None, Some(Value(1, TRUE))}
Errors ==
    {None, Some(ErrorObject(None, None, None)),
     Some(ErrorObject(Some("NOT_FOUND"), Some(404), Some("not found"))),
     Some(ErrorWith(None, None, Some("boom"), {"name", "stack", "type"}, None)),
     Some(ErrorWith(None, None, Some("restify"), {"statusCode"},
                    Some([code |-> Some("NotFound"), message |-> Some("gone")])))}

\* The exception of a failed validation (a BadRequestException).
ValidationError == ErrorObject(Some("INVALID_DATA"), Some(400), Some("invalid"))

\* Requests: the method and path, the parameters that are set, the body.
Requests ==
    [method : {"get", "del"}, route : RoutePaths,
     params : SUBSET {"dummy_id"}, body : Bodies]

toLowerCase(method) ==
    CASE method = "DELETE" -> "delete"
      [] method = "GET" -> "get"
      [] method = "Put" -> "put"
      [] method = "PATCH" -> "patch"
      [] OTHER -> method

\* _.extend({}, req.params, { body: req.body }): the properties that are set.
MergedParams(req) == req.params \cup (IF IsNull(req.body) THEN {} ELSE {"body"})

\* schema.validateAndReturnException(correlationId, params, false)
validateAndReturnException(schema, req) ==
    IF \/ ~(schema.required \subseteq MergedParams(req))
       \/ (schema.checksBody /\ ~IsNull(req.body) /\ ~Val(req.body).valid)
    THEN Some(ValidationError)
    ELSE None

\* HttpEndpoint.registerRoute: the route as mounted on the server.
registerRoute(method, route, schema, action) ==
    LET m == toLowerCase(method)
    IN  [method |-> IF m = "delete" THEN "del" ELSE m,
         route |-> route, schema |-> schema, action |-> action]

\* actionCurl that goes on to the action after a failed validation
actionCurl_noReturn(r, req, err, result) ==
    LET failed == IF IsNull(r.schema) THEN None
                  ELSE validateAndReturnException(Val(r.schema), req)
    IN  [req |-> req, route |-> Some(r),
         sendErrors |-> (IF IsNull(failed) THEN 0 ELSE 1)
                        + (IF IsNull(err) /\ r.action # "sendError" THEN 0 ELSE 1),
         actions |-> 1, err |-> err, result |-> result,
         res |-> ApplyHelper(r.action,
                    IF IsNull(failed) THEN NewResponse ELSE sendError(NewResponse, failed),
                    err, result)]

\* actionCurl(req, res): validation, then the action, which hands the
\* helper named by the route to its controller and is called back with
\* (err, result).
actionCurl(r, req, err, result) ==
    LET failed == IF IsNull(r.schema) THEN None
                  ELSE validateAndReturnException(Val(r.schema), req)
    IN  IF ~IsNull(failed)
        THEN [req |-> req, route |-> Some(r), sendErrors |-> 1, actions |-> 0,
              err |-> None, result |-> None,
              res |-> sendError(NewResponse, failed)]
        ELSE [req |-> req, route |-> Some(r),
              sendErrors |-> IF IsNull(err) /\ r.action # "sendError" THEN 0 ELSE 1,
              actions |-> 1, err |-> err, result |-> result,
              res |-> ApplyHelper(r.action, NewResponse, err, result)]

NoExchange ==
    [req |-> [method |-> "get", route |-> <<>>, params |-> {}, body |-> None],
     route |-> None, sendErrors |-> 0, actions |-> 0, err |-> None, result |-> None,
     res |-> NewResponse]

Matches(r, req) == r.method = req.method /\ r.route = req.route

\* A service's register() mounts a route on the server; services mount each
\* method and path once.
Http_registerRoute ==
    \E method \in Methods, route \in RoutePaths, schema \in Schemas, action \in Helpers :
        LET r == registerRoute(method, route, schema, action)
        IN  /\ \A q \in serverRoutes : ~Matches(q, r)
            /\ serverRoutes' = serverRoutes \cup {r}
            /\ exchange' = NoExchange
            /\ UNCHANGED <<resolverVars, lifeVars, routeVars, callVars>>

\* The server dispatches a request to the route mounted for its method and
\* path; the controller answers the action with (err, result).
Http_dispatch ==
    \E req \in Requests, r \in serverRoutes, err \in Errors, result \in Results :
        /\ Matches(r, req)
        /\ exchange' = actionCurl(r, req, err, result)
        /\ UNCHANGED <<serverRoutes, resolverVars, lifeVars, routeVars, callVars>>

HttpNext == Http_registerRoute \/ Http_dispatch

\* ------------------------------------------------------------------------
\* Services that mount routes: RestService.registerRoute, the commandable
\* service and client, the heartbeat and status services
\* ------------------------------------------------------------------------
HEARTBEAT == <<"h", "e", "a", "r", "t", "b", "e", "a", "t">>
STATUS == <<"s", "t", "a", "t", "u", "s">>

\* A route or base route that is null or ""
IsEmptyRoute(b) == IsNull(b) \/ Val(b) = <<>>

\* route[0] != '/' ? '/' + route : route
Slashed(route) ==
    IF route # <<>> /\ route[1] = "/" THEN route ELSE <<"/">> \o route

\* The service forgets its base route
Service_route_noBase(baseRoute, route) == route

\* RestService.registerRoute: the route under the service's base route
Service_route(baseRoute, route) ==
    IF IsEmptyRoute(baseRoute) THEN route
    ELSE Slashed(Val(baseRoute)) \o route

\* RestService.registerRoute: nothing without an endpoint, else what the
\* endpoint's registerRoute mounts
Service_registerRoute(svc, method, route, schema, action) ==
    IF ~svc.endpoint THEN <<>>
    ELSE <<registerRoute(method, Service_route(svc.baseRoute, route),
                         schema, action)>>

\* A mounted route and the command its handler executes (0: none)
Mount(routes, command) ==
    [i \in 1..Len(routes) |-> [route |-> routes[i], command |-> command]]

\* CommandableHttpService.register: the loop over the commands from the i-th
RECURSIVE Commandable_register(_, _)
Commandable_register(svc, i) ==
    IF i > Len(svc.commands) THEN <<>>
    ELSE Mount(Service_registerRoute(svc, "post", Slashed(svc.commands[i]),
                                     None, "sendResult"), i)
         \o Commandable_register(svc, i + 1)

\* HeartbeatRestService.register and StatusRestService.register
Status_register(svc) ==
    Mount(Service_registerRoute(svc, "get", svc.route, None, "sendResult"), 0)

\* The register() of the service
Service_register(svc) ==
    IF svc.kind = "commandable" THEN Commandable_register(svc, 1)
    ELSE Status_register(svc)

\* The client forgets its base route
createRequestRoute_noBase(baseRoute, route) == Slashed(route)

\* RestClient.createRequestRoute
createRequestRoute(baseRoute, route) ==
    (IF IsEmptyRoute(baseRoute) THEN <<>> ELSE Slashed(Val(baseRoute)))
        \o Slashed(route)

\* The path fragments the server's router compares: the pieces between
\* slashes, the empty ones dropped
RECURSIVE Fragments(_, _, _)
Fragments(path, i, piece) ==
    IF i > Len(path) THEN (IF piece = <<>> THEN <<>> ELSE <<piece>>)
    ELSE IF path[i] = "/"
         THEN (IF piece = <<>> THEN <<>> ELSE <<piece>>)
              \o Fragments(path, i + 1, <<>>)
         ELSE Fragments(path, i + 1, Append(piece, path[i]))

\* The first mounted route that serves the request (0: none)
RECURSIVE Routed(_, _, _, _)
Routed(routes, method, path, i) ==
    IF i > Len(routes) THEN 0
    ELSE IF /\ routes[i].route.method = method
            /\ Fragments(routes[i].route.route, 1, <<>>)
                   = Fragments(path, 1, <<>>)
         THEN i
         ELSE Routed(routes, method, path, i + 1)

\* What the router answers when no route serves the request
ResourceNotFound ==
    ErrorPayload(ErrorObject(Some("ResourceNotFound"), Some(404), Some("does not exist")))

\* What the handler of a command's route did: the command it executed (0:
\* none) and how often, the arguments and the correlation id it gave it, and
\* the timings it began and ended
Exec(command, executions, args, correlationId, timings) ==
    [command |-> command, executions |-> executions, args |-> args,
     correlationId |-> correlationId, begun |-> timings, ended |-> timings]

NoExec == Exec(0, 0, Value(0, TRUE), None, 0)

\* A handler that gives the command no arguments
Commandable_args_none(body) == Value(0, TRUE)

\* req.body || {}: the arguments of the command, {} for an absent body
Commandable_args(body) == IF IsNull(body) THEN Value(0, TRUE) ELSE Val(body)

\* A request and the server's answer: the handler of the route that serves
\* it calls sendResult(req, res)(err, result), a request that no route serves
\* is answered 404
Answer(op, name, method, path, handled, err, result) ==
    [op |-> op, name |-> name, method |-> method, path |-> path,
     handled |-> handled, err |-> err, result |-> result,
     body |-> None, correlationId |-> None, exec |-> NoExec,
     res |-> IF handled = 0
             THEN res_json(res_status(NewResponse, 404), ResourceNotFound)
             ELSE sendResult(NewResponse, err, result)]

Send(routes, op, name, method, path, err, result) ==
    Answer(op, name, method, path, Routed(routes, method, path, 1), err, result)

NoRequest ==
    [op |-> "none", name |-> <<>>, method |-> "get", path |-> <<>>,
     handled |-> 0, err |-> None, result |-> None,
     body |-> None, correlationId |-> None, exec |-> NoExec,
     res |-> NewResponse]

\* The handler CommandableHttpService.register mounts for a command, on a
\* request with that body and correlation_id parameter: it begins a timing
\* and executes the command; the command calls back once, and the callback
\* ends the timing and answers with sendResult (which the answer holds)
Commandable_handle(answer, routes, body, correlationId) ==
    [answer EXCEPT
        !.body = body,
        !.correlationId = correlationId,
        !.exec = IF answer.handled = 0 THEN NoExec
                 ELSE Exec(routes[answer.handled].command, 1,
                           Commandable_args(body), correlationId, 1)]

\* What a command calls back with: an error, a value, or neither
CommandResults ==
    {<<None, Some(Value(1, TRUE))>>, <<None, None>>,
     <<Some(ErrorObject(Some("NOT_FOUND"), Some(404), Some("not found"))), None>>}

\* The services under study
CommandNames == {<<"a">>, <<"/", "a">>, <<"b">>}
BaseRoutes == {None, Some(<<>>), Some(<<"d">>), Some(<<"/", "d">>)}
CommandSets ==
    {<<>>} \cup {<<n>> : n \in CommandNames}
           \cup {c \in CommandNames \X CommandNames : c[1] # c[2]}
StatusRoutes == {<<"r">>, <<"/", "r">>}

RouteService(kind, baseRoute, route, commands, endpoint) ==
    [kind |-> kind, baseRoute |-> baseRoute, route |-> route,
     commands |-> commands, endpoint |-> endpoint, registered |-> FALSE]

NoRouteService == RouteService("none", None, <<>>, <<>>, FALSE)

RouteServices ==
    {RouteService("commandable", b, <<>>, c, e) :
        b \in BaseRoutes, c \in CommandSets, e \in BOOLEAN}
    \cup {RouteService("heartbeat", b, r, <<>>, e) :
        b \in BaseRoutes, r \in {HEARTBEAT} \cup StatusRoutes, e \in BOOLEAN}
    \cup {RouteService("status", b, r, <<>>, e) :
        b \in BaseRoutes, r \in {STATUS} \cup StatusRoutes, e \in BOOLEAN}

\* The paths a caller may try for the service
Unslashed(route) ==
    IF route # <<>> /\ route[1] = "/" THEN SubSeq(route, 2, Len(route))
    ELSE route

BaseOf(svc) == IF IsNull(svc.baseRoute) THEN <<>> ELSE Unslashed(Val(svc.baseRoute))

GetPaths(svc) ==
    {<<"/">> \o Unslashed(svc.route),
     <<"/">> \o BaseOf(svc) \o <<"/">> \o Unslashed(svc.route),
     <<"/">> \o BaseOf(svc) \o Unslashed(svc.route)}

\* register() called on the service as it is
Routes_register ==
    /\ routeService.kind # "none"
    /\ ~routeService.registered
    /\ mounted' = Service_register(routeService)
    /\ routeService' = [routeService EXCEPT !.registered = TRUE]
    /\ UNCHANGED <<request, resolverVars, httpVars, lifeVars, callVars>>

\* RestService.open: a service without an endpoint creates its own, and the
\* endpoint's open performs the registrations
Routes_open ==
    /\ routeService.kind # "none"
    /\ ~routeService.registered
    /\ mounted' = Service_register([routeService EXCEPT !.endpoint = TRUE])
    /\ routeService' = [routeService EXCEPT !.endpoint = TRUE,
                                            !.registered = TRUE]
    /\ UNCHANGED <<request, resolverVars, httpVars, lifeVars, callVars>>

\* CommandableHttpClient.callCommand of a client with the service's base
\* route: call('post', name, ...); the server sees the body and the
\* correlation_id parameter of the request, each there or not
Routes_callCommand ==
    \E name \in CommandNames, out \in CommandResults,
       body \in {None, Some(Value(1, TRUE))}, correlationId \in {None, Some("c")} :
        /\ routeService.kind = "commandable"
        /\ routeService.registered
        /\ request' = Commandable_handle(
                          Send(mounted, "callCommand", name, "post",
                               createRequestRoute(routeService.baseRoute, name),
                               out[1], out[2]),
                          mounted, body, correlationId)
        /\ UNCHANGED <<routeService, mounted, resolverVars, httpVars, lifeVars, callVars>>

\* A GET request to the server of a heartbeat or status service, whose
\* handler sends the time or the status object: sendResult(req, res)(null, ...)
Routes_get ==
    \E path \in GetPaths(routeService) :
        /\ routeService.kind \in {"heartbeat", "status"}
        /\ routeService.registered
        /\ request' = Send(mounted, "get", <<>>, "get", path,
                           None, Some(Value(1, TRUE)))
        /\ UNCHANGED <<routeService, mounted, resolverVars, httpVars, lifeVars, callVars>>

RoutesNext ==
    \/ Routes_register
    \/ Routes_open
    \/ Routes_callCommand
    \/ Routes_get

\* ------------------------------------------------------------------------
\* RestClient.call: the request it sends and what it calls back with
\* ------------------------------------------------------------------------
MaxRetries == 2

\* Query parameters: the properties of an object in their order, each a pair
\* of a key and a value
HasKey(params, key) == \E i \in 1..Len(params) : params[i][1] = key

\* params[key] = value: an existing property keeps its place
SetKey(params, key, value) ==
    IF HasKey(params, key)
    THEN [i \in 1..Len(params) |->
             IF params[i][1] = key THEN <<key, value>> ELSE params[i]]
    ELSE Append(params, <<key, value>>)

\* addCorrelationId that adds nothing
addCorrelationId_never(params, correlationId) == params

\* RestClient.addCorrelationId
addCorrelationId(params, correlationId) ==
    IF IsNull(correlationId) THEN params
    ELSE Some(SetKey(IF IsNull(params) THEN <<>> ELSE Val(params),
                     "correlation_id", Val(correlationId)))

\* querystring.escape on the values in use
Escape(value) == IF value = "a&b" THEN "a%26b" ELSE value

\* querystring.stringify: key=value pieces, the values escaped
Stringify(params) ==
    [i \in 1..Len(params) |-> <<params[i][1], "=", Escape(params[i][2])>>]

\* The route with its query: route += '?' + querystring.stringify(params)
\* unless the parameters are empty
RequestRoute(path, params) ==
    [path |-> path,
     query |-> IF IsNull(params) \/ Val(params) = <<>> THEN None
               ELSE Some(Stringify(Val(params)))]

\* The errors a call reports
CallError(kind, code, status, details, cause) ==
    [kind |-> kind, code |-> code, status |-> status, details |-> details,
     cause |-> cause]

\* new UnknownException(correlationId, 'UNSUPPORTED_METHOD', ...).withDetails('verb', method)
UnsupportedMethod(method) ==
    CallError("UnknownException", "UNSUPPORTED_METHOD", 500, Some(method), None)

\* An error of the transport or of the HTTP client
TransportError(code, status) == CallError("transport", code, status, None, None)

\* The TypeError of calling a method of the null _client
NoClientError == CallError("TypeError", "TypeError", 0, None, None)

\* ApplicationExceptionFactory.create(data).withCause(err)
ApplicationException(data, err) ==
    CallError("ApplicationException", data.code, data.status, None,
              Some(err.code))

\* The body of an error response
ErrorBody == ErrorPayload(ErrorObject(Some("NOT_FOUND"), Some(404), Some("not found")))

\* What the HTTP client hands to the action: (err, req, res, data), res
\* given by its status code, 0 when there is no response
Outcome(err, statusCode, data) == [err |-> err, statusCode |-> statusCode, data |-> data]

\* After an exchange with the server
ServerOutcomes ==
    {Outcome(None, 200, Some(Value(1, TRUE))),
     Outcome(None, 200, None),
     Outcome(None, 204, None),
     Outcome(Some(TransportError("Error", 204)), 204, None),
     Outcome(Some(TransportError("NotFound", 404)), 404, Some(ErrorBody)),
     Outcome(Some(TransportError("InternalServer", 500)), 500, None),
     Outcome(Some(TransportError("RequestTimeout", 0)), 0, None)}

\* When no connection could be made
FailedOutcomes == {Outcome(Some(TransportError("ECONNREFUSED", 0)), 0, None)}

\* An action that takes a 204 for a value
action_no204(o) ==
    IF IsNull(o.err) THEN <<None, o.data>>
    ELSE IF ~IsNull(o.data)
         THEN <<Some(ApplicationException(Val(o.data), Val(o.err))), None>>
         ELSE <<o.err, None>>

\* The action of call: what it gives the callback, (err, result)
action(o) ==
    IF o.statusCode = 204 THEN <<None, None>>
    ELSE IF IsNull(o.err) THEN <<None, o.data>>
    ELSE IF ~IsNull(o.data)
         THEN <<Some(ApplicationException(Val(o.data), Val(o.err))), None>>
         ELSE <<o.err, None>>

\* The verbs call dispatches; delete goes to the client's del
SupportedMethods == {"get", "head", "post", "put", "delete"}

\* Every verb is dispatched
IsSupported_any(method) == TRUE

IsSupported(method) == method \in SupportedMethods

\* The request handed to the HTTP client: post and put carry the data
Sent(method, route, data) ==
    [verb |-> IF method = "delete" THEN "del" ELSE method,
     path |-> route.path, query |-> route.query,
     data |-> IF method \in {"post", "put"} THEN data ELSE None]

\* A call in progress or done
RestCall(pc, method, route, correlationId, params, data, hasCallback, sent, cb, thrown) ==
    [pc |-> pc, method |-> method, route |-> route,
     correlationId |-> correlationId, params |-> params, data |-> data,
     hasCallback |-> hasCallback, sent |-> sent,
     attempts |-> 0, connected |-> FALSE, outcome |-> None,
     cb |-> cb, thrown |-> thrown]

NoRestCall ==
    RestCall("idle", "get", <<>>, None, None, None, FALSE, None, None, None)

CallSetup(baseRoute, retries, reachable) ==
    [baseRoute |-> baseRoute, retries |-> retries, reachable |-> reachable]

NoCallSetup == CallSetup(None, 0, FALSE)

\* The arguments of the calls
CallMethods == {"get", "GET", "head", "post", "Put", "delete", "DELETE", "del", "PATCH"}
CallRoutes == {<<"a">>, <<"/", "a">>}
CorrelationIds == {None, Some(""), Some("a&b")}
CallParams ==
    {None, Some(<<>>), Some(<<<<"skip", "1">>>>),
     Some(<<<<"correlation_id", "old">>, <<"skip", "1">>>>)}
\* data and callback: data may be the callback itself
CallData ==
    {[data |-> d, hasCallback |-> c] : d \in {None, Some(Value(1, TRUE))}, c \in BOOLEAN}
    \cup {[data |-> Some(Value(0, TRUE)), hasCallback |-> TRUE]}

\* RestClient.call up to the dispatch on the verb, the verb in lower case
called(client, base, raw, method, route, correlationId, params, data, hasCallback) ==
    IF ~IsSupported(method)
    THEN RestCall("done", raw, route, correlationId, params, data, hasCallback, None,
                  IF hasCallback THEN Some(<<Some(UnsupportedMethod(method)), None>>)
                  ELSE None,
                  IF hasCallback THEN None ELSE Some(UnsupportedMethod(method)))
    ELSE IF ~client
    THEN RestCall("done", raw, route, correlationId, params, data, hasCallback, None,
                  None, Some(NoClientError))
    ELSE RestCall("sent", raw, route, correlationId, params, data, hasCallback,
                  Some(Sent(method,
                            RequestRoute(createRequestRoute(base, route),
                                         addCorrelationId(params, correlationId)),
                            data)),
                  None, None)

\* RestClient.call: method = method.toLowerCase(), and the rest
call(client, base, method, route, correlationId, params, data, hasCallback) ==
    called(client, base, method, toLowerCase(method), route, correlationId,
           params, data, hasCallback)

\* RestClient.open: the connection is resolved and the HTTP client built
Call_open ==
    /\ restCall.pc = "idle"
    /\ ~restClient.client
    /\ \E inner \in InnerResolve(restClient.connection), throws \in BOOLEAN :
          restClient' =
              IF resolve(inner.err, inner.connection).err # NoError
              THEN [restClient EXCEPT
                       !.connection = IF inner.same
                                      THEN resolve(inner.err, inner.connection).connection
                                      ELSE @]
              ELSE [restClient EXCEPT
                       !.connection = IF inner.same
                                      THEN resolve(inner.err, inner.connection).connection
                                      ELSE @,
                       !.uri = Val(resolve(inner.err, inner.connection).connection).uri,
                       !.client = ~throws]
    /\ UNCHANGED <<restCall, callSetup, endpoints, services, directClient, last,
                   steps, scenario, resolverVars, httpVars, routeVars>>

\* RestClient.call(method, route, correlationId, params, data, callback)
Call_call ==
    \E method \in CallMethods, route \in CallRoutes,
       correlationId \in CorrelationIds, params \in CallParams, d \in CallData :
        /\ restCall.pc = "idle"
        /\ restCall' = call(restClient.client, callSetup.baseRoute,
                            method, route, correlationId, params,
                            d.data, d.hasCallback)
        /\ UNCHANGED <<callSetup, lifeVars, resolverVars, httpVars, routeVars>>

\* An HTTP client that retries without end
GaveUp_never(attempts, retries) == FALSE

\* The HTTP client has made its first attempt and all its retries
GaveUp(attempts, retries) == attempts > retries

\* The HTTP client tries to connect: the first time, and again after a
\* failure while it has retries left
Call_attempt ==
    /\ restCall.pc = "sent"
    /\ ~restCall.connected
    /\ ~GaveUp(restCall.attempts, callSetup.retries)
    /\ restCall.attempts <= MaxRetries
    /\ restCall' = [restCall EXCEPT !.attempts = @ + 1,
                                    !.connected = callSetup.reachable]
    /\ UNCHANGED <<callSetup, lifeVars, resolverVars, httpVars, routeVars>>

\* The HTTP client ends the request: after an exchange with the server, or
\* when the last attempt to connect has failed. It calls the action when
\* there is one; what it does with no callback is its own affair.
Call_respond ==
    /\ restCall.pc = "sent"
    /\ restCall.connected \/ GaveUp(restCall.attempts, callSetup.retries)
    /\ \E o \in (IF restCall.connected THEN ServerOutcomes ELSE FailedOutcomes),
          crash \in BOOLEAN :
          /\ crash => ~restCall.hasCallback
          /\ restCall' = [restCall EXCEPT
                 !.pc = "done",
                 !.outcome = Some(o),
                 !.cb = IF restCall.hasCallback THEN Some(action(o)) ELSE None,
                 !.thrown = IF crash THEN Some(NoClientError) ELSE None]
    /\ UNCHANGED <<callSetup, lifeVars, resolverVars, httpVars, routeVars>>

CallNext ==
    \/ Call_open
    \/ Call_call
    \/ Call_attempt
    \/ Call_respond

\* ------------------------------------------------------------------------
\* HttpEndpoint, RestService, RestClient and DirectClient: objects and fields
\* ------------------------------------------------------------------------

Services == {1, 2}
MaxEndpoints == 3
MaxRegistrations == 2
MaxSteps == 5
EndpointIds == 1..MaxEndpoints
Scenarios == {"service", "client", "direct"}

\* The connections a component is configured with: one given by its parts
\* and one resolved through discovery.  A component that was never
\* configured has no connection at all.
LifeConnections ==
    {ConnectionParams(None, Some(HTTP), Some(HostA), 7, FALSE),
     ConnectionParams(None, Some(HTTP), None, 0, TRUE)}

\* An HttpEndpoint after construction: no server, no uri, no registrations.
\* routes are the services whose routes are mounted on the server; pc is
\* the position of the open in flight, caller who awaits its callback (0 the
\* user, else a service), queued the registration list as that open found
\* it, creator the service whose createEndpoint made the object (0 for the
\* endpoint supplied through the references).
HttpEndpoint(connection, creator) ==
    [created |-> TRUE, connection |-> connection, server |-> FALSE,
     listening |-> FALSE, uri |-> None, registrations |-> <<>>, routes |-> {},
     pc |-> "idle", caller |-> 0, queued |-> <<>>, creator |-> creator]

NoEndpoint == [HttpEndpoint(None, 0) EXCEPT !.created = FALSE]

\* A RestService after construction.
RestService ==
    [config |-> None, endpoint |-> None, localEndpoint |-> FALSE, opened |-> FALSE]

\* A RestClient after construction and configure(connection).
RestClient(connection) == [client |-> FALSE, uri |-> None, connection |-> connection]

\* A DirectClient after construction.
DirectClient == [opened |-> TRUE, controller |-> FALSE]

\* HttpEndpoint.isOpen
isOpen(ep) == ep.server

\* One call on a component, or one callback into it: wasOpen is what
\* isOpen() answered when it began, cb the error its callback was called
\* with (null while no callback was called), epCb the error HttpEndpoint.open
\* or close called back with inside it, ep the endpoint that call was made on
\* (0 for none), calls what the component called on its collaborators,
\* queued the registration list as HttpEndpoint.open found it,
\* registered the services whose register() returned, and cbs how many times
\* the callback was called (cb is what it was called with last).
Call(op, id, wasOpen, cb, epCb, ep, calls, queued, registered) ==
    [op |-> op, id |-> id, wasOpen |-> wasOpen, cb |-> cb, epCb |-> epCb, ep |-> ep,
     calls |-> calls, queued |-> queued, registered |-> registered,
     cbs |-> IF IsNull(cb) THEN 0 ELSE 1]
SimpleCall(op, id, wasOpen, cb) == Call(op, id, wasOpen, cb, None, 0, {}, <<>>, <<>>)
NoCall == SimpleCall("none", 0, FALSE, None)

\* HttpEndpoint.register
register(ep, registration) ==
    [ep EXCEPT !.registrations = Append(@, registration)]

\* HttpEndpoint.unregister: _.remove returns the elements it removed, and
\* they become the list.
unregister(ep, registration) ==
    [ep EXCEPT !.registrations = SelectSeq(@, LAMBDA r : r = registration)]

\* performRegistrations that stops after the first registration
performRegistrations_first(eps, svcs, regs, done) ==
    IF regs = <<>> \/ IsNull(svcs[Head(regs)].endpoint)
    THEN [eps |-> eps, threw |-> FALSE, registered |-> done]
    ELSE IF ~eps[Val(svcs[Head(regs)].endpoint)].server
    THEN [eps |-> eps, threw |-> TRUE, registered |-> done]
    ELSE [eps |-> [eps EXCEPT ![Val(svcs[Head(regs)].endpoint)].routes = @ \cup {Head(regs)}],
          threw |-> FALSE, registered |-> Append(done, Head(regs))]

RECURSIVE performRegistrations(_, _, _, _)
\* HttpEndpoint.performRegistrations over the list regs: register() of a
\* service mounts its route on the server of the endpoint the service
\* holds, does nothing when it holds none, and throws when that endpoint
\* has no server.  done are the services whose register() returned.
performRegistrations(eps, svcs, regs, done) ==
    IF regs = <<>> THEN [eps |-> eps, threw |-> FALSE, registered |-> done]
    ELSE LET s == Head(regs)
             t == svcs[s].endpoint
         IN  IF IsNull(t)
             THEN performRegistrations(eps, svcs, Tail(regs), Append(done, s))
             ELSE IF ~eps[Val(t)].server
             THEN [eps |-> eps, threw |-> TRUE, registered |-> done]
             ELSE performRegistrations(
                     [eps EXCEPT ![Val(t)].routes = @ \cup {s}], svcs, Tail(regs),
                     Append(done, s))

CannotConnect(uri) == ConnectionException("CANNOT_CONNECT", uri)

\* The end of an open whose server could not be built: the catch block.
open_failed(eps, e, calls, registered) ==
    [eps |-> [eps EXCEPT ![e].server = FALSE, ![e].routes = {},
                         ![e].listening = FALSE, ![e].pc = "idle"],
     cb |-> Some(CannotConnect(eps[e].uri)), calls |-> calls,
     registered |-> registered]

\* After performRegistrations (pr): the catch block if it threw, else the
\* call of server.listen.
open_registered(e, pr) ==
    IF pr.threw
    THEN open_failed(pr.eps, e, {"createServer", "performRegistrations"}, pr.registered)
    ELSE [eps |-> [pr.eps EXCEPT ![e].pc = "listening"], cb |-> None,
          calls |-> {"createServer", "performRegistrations", "listen"},
          registered |-> pr.registered]

\* The try block of open: the server is created (or that throws), then the
\* registrations are performed.
open_createServer(eps, svcs, e, throws) ==
    IF throws
    THEN open_failed(eps, e, {"createServer"}, <<>>)
    ELSE open_registered(e,
            performRegistrations([eps EXCEPT ![e].server = TRUE], svcs,
                                 eps[e].registrations, <<>>))

\* The callback open hands to resolve, given the resolver's answer out;
\* same tells that the resolver worked on the endpoint's own object.
open_answered(eps, svcs, e, same, out, throws) ==
    IF out.err # NoError
    THEN [eps |-> [eps EXCEPT ![e].connection = IF same THEN out.connection ELSE @,
                              ![e].queued = <<>>, ![e].pc = "idle"],
          cb |-> Some(out.err), calls |-> {}, registered |-> <<>>]
    ELSE open_createServer(
            [eps EXCEPT ![e].connection = IF same THEN out.connection ELSE @,
                        ![e].queued = <<>>, ![e].uri = Val(out.connection).uri,
                        ![e].server = FALSE, ![e].routes = {}, ![e].listening = FALSE],
            svcs, e, throws)

\* The callback open hands to resolve: what it does with what the inner
\* resolver delivers.  throws: restify.createServer or a use() throws.
open_resolved(eps, svcs, e, inner, throws) ==
    open_answered(eps, svcs, e, inner.same, resolve(inner.err, inner.connection), throws)

\* The inner resolver answers within the call unless it has to ask a
\* discovery service.
UsesDiscovery(connection) == ~IsNull(connection) /\ Val(connection).discovery_key

\* A call's record with one more call made
AddCall(r, made) == [r EXCEPT !.calls = @ \cup {made}]

\* HttpEndpoint.open up to its first wait: for the discovery service when
\* the connection names a key, else for the listen.
open(eps, svcs, e, caller, inner, throws) ==
    IF isOpen(eps[e])
    THEN [eps |-> eps, cb |-> Some(NoError), calls |-> {}, registered |-> <<>>]
    ELSE IF UsesDiscovery(eps[e].connection)
    THEN [eps |-> [eps EXCEPT ![e].caller = caller, ![e].pc = "resolving",
                              ![e].queued = eps[e].registrations],
          cb |-> None, calls |-> {"resolve"}, registered |-> <<>>]
    ELSE AddCall(open_resolved([eps EXCEPT ![e].caller = caller], svcs, e, inner, throws),
                 "resolve")

\* A listen callback that hands the server's error on as it is
open_listened_raw(eps, e, ok, inner, fails) ==
    IF ~ok
    THEN [eps |-> [eps EXCEPT ![e].pc = "idle"],
          cb |-> Some(Error("Error", "EADDRINUSE", None)), calls |-> {},
          registered |-> <<>>]
    ELSE [eps |-> [eps EXCEPT ![e].pc = "idle", ![e].listening = eps[e].server],
          cb |-> Some(registerConnection(inner, fails).err),
          calls |-> {"register"}, registered |-> <<>>]

\* The callback open hands to server.listen: on success the resolver's
\* register publishes the connection, and its answer is open's answer.
open_listened(eps, e, ok, inner, fails) ==
    IF ~ok
    THEN [eps |-> [eps EXCEPT ![e].pc = "idle"],
          cb |-> Some(CannotConnect(eps[e].uri)), calls |-> {}, registered |-> <<>>]
    ELSE [eps |-> [eps EXCEPT ![e].pc = "idle", ![e].listening = eps[e].server],
          cb |-> Some(registerConnection(inner, fails).err),
          calls |-> {"register"}, registered |-> <<>>]

\* A close that forgets the uri whether or not a server exists
close_clearsUri(ep) ==
    [ep EXCEPT !.server = FALSE, !.listening = FALSE, !.routes = {}, !.uri = None]

\* HttpEndpoint.close when no exception gets out of it; server.close() may
\* throw, which is eaten.
close(ep) ==
    IF ep.server
    THEN [ep EXCEPT !.server = FALSE, !.listening = FALSE, !.routes = {}, !.uri = None]
    ELSE ep

\* HttpEndpoint.close lets an exception out: there is a server, its close()
\* or the debug log throws and is caught, and the warn log in the catch block
\* throws in its turn.
close_escapes(ep, caught, warnThrows) == ep.server /\ caught /\ warnThrows

\* The callback RestService.open hands to its endpoint's open.
opened(svcs, caller, cb) ==
    IF caller # 0 /\ ~IsNull(cb)
    THEN [svcs EXCEPT ![caller].opened = (Val(cb) = NoError)]
    ELSE svcs

\* An endpoint no service holds, that has no server and no open in flight,
\* is garbage: nothing can reach it, and its identity is free again.
collect(eps, svcs) ==
    [e \in EndpointIds |->
        IF /\ e # 1
           /\ \A s \in Services : svcs[s].endpoint # Some(e)
           /\ ~eps[e].server
           /\ eps[e].pc = "idle"
        THEN NoEndpoint
        ELSE eps[e]]

HasFree(eps) == \E e \in EndpointIds : ~eps[e].created
Free(eps) == CHOOSE e \in EndpointIds :
                ~eps[e].created /\ \A f \in 1..(e - 1) : eps[f].created

\* setReferences that takes every endpoint for its own
setReferences_alwaysLocal(svc, e, found) ==
    [svc EXCEPT !.endpoint = Some(e), !.localEndpoint = TRUE]

\* RestService.setReferences: the endpoint found in the references, or a
\* local one.
setReferences(svc, e, found) ==
    [svc EXCEPT !.endpoint = Some(e), !.localEndpoint = ~found]

\* RestService.createEndpoint followed by register(this)
createEndpoint(eps, svcs, s) ==
    [eps EXCEPT ![Free(eps)] = register(HttpEndpoint(svcs[s].config, s), s)]

\* ------------------------------------------------------------------------
\* The life cycle as a state machine
\* ------------------------------------------------------------------------
\* The connections a component may have been configured with
Configured == {None} \cup {Some(k) : k \in LifeConnections}

\* The endpoint the references hold, configured with c, and no other
InitialEndpoints(c) ==
    [e \in EndpointIds |-> IF e = 1 THEN HttpEndpoint(c, 0) ELSE NoEndpoint]

LifeInit ==
    /\ endpoints \in {InitialEndpoints(c) : c \in Configured}
    /\ services = [s \in Services |-> RestService]
    /\ restClient \in {RestClient(c) : c \in Configured}
    /\ directClient = DirectClient
    /\ last = NoCall
    /\ steps = 0
    /\ scenario \in Scenarios
    /\ routeService = NoRouteService
    /\ mounted = <<>>
    /\ request = NoRequest
    /\ callSetup = NoCallSetup
    /\ restCall = NoRestCall
    /\ resolverConnection = None
    /\ resolverCall = ResolverIdle
    /\ serverRoutes = {}
    /\ exchange = NoExchange

\* Every call counts; the run ends after MaxSteps calls.  The services and
\* their endpoints, the RestClient and the DirectClient share no state, so a
\* run exercises one of them.
Step(family) ==
    /\ scenario = family
    /\ steps < MaxSteps
    /\ steps' = steps + 1
    /\ UNCHANGED <<scenario, resolverVars, httpVars, routeVars, callVars>>

\* RestService.configure
Service_configure(s) ==
    \E c \in LifeConnections :
        /\ Step("service")
        /\ services[s].config # Some(c)
        /\ services' = [services EXCEPT ![s].config = Some(c)]
        /\ last' = SimpleCall("service.configure", s, services[s].opened, None)
        /\ UNCHANGED <<endpoints, restClient, directClient>>

\* RestService.setReferences with references that hold the endpoint (1) or
\* hold none, in which case the service creates a local one.
Service_setReferences(s) ==
    \E shared \in BOOLEAN :
        /\ Step("service")
        /\ shared \/ HasFree(endpoints)
        /\ Len(endpoints[IF shared THEN 1 ELSE Free(endpoints)].registrations)
              < MaxRegistrations
        /\ LET e == IF shared THEN 1 ELSE Free(endpoints)
               eps == IF shared
                      THEN [endpoints EXCEPT ![1] = register(@, s)]
                      ELSE createEndpoint(endpoints, services, s)
           IN  /\ services' = [services EXCEPT ![s] = setReferences(@, e, shared)]
               /\ endpoints' = collect(eps, services')
               /\ last' = Call("service.setReferences", s, services[s].opened, None, None, 0,
                               {"endpoint.register"}, <<>>, <<>>)
        /\ UNCHANGED <<restClient, directClient>>

\* RestService.unsetReferences
Service_unsetReferences(s) ==
    /\ Step("service")
    /\ ~IsNull(services[s].endpoint)
    /\ services' = [services EXCEPT ![s].endpoint = None]
    /\ endpoints' = collect(
          [endpoints EXCEPT ![Val(services[s].endpoint)] = unregister(@, s)], services')
    /\ last' = Call("service.unsetReferences", s, services[s].opened, None, None, 0,
                    {"endpoint.unregister"}, <<>>, <<>>)
    /\ UNCHANGED <<restClient, directClient>>

\* RestService.open, the callback it hands to its endpoint's open (r is what
\* that open did)
Service_opened(s, e, queued, svcs, r) ==
    /\ services' = opened(svcs, s, r.cb)
    /\ endpoints' = collect(r.eps, services')
    /\ last' = Call("service.open", s, FALSE, r.cb, r.cb, e,
                    r.calls \cup {"endpoint.open"}, queued, r.registered)

\* RestService.open once the service has an endpoint e
Service_openEndpoint(s, e, eps, svcs) ==
    IF svcs[s].localEndpoint
    THEN /\ eps[e].pc = "idle"
         /\ \E inner \in InnerResolve(eps[e].connection), throws \in BOOLEAN :
               Service_opened(s, e, eps[e].registrations, svcs,
                              open(eps, svcs, e, s, inner, throws))
    ELSE /\ services' = [svcs EXCEPT ![s].opened = TRUE]
         /\ endpoints' = eps
         /\ last' = SimpleCall("service.open", s, FALSE, Some(NoError))

\* RestService.open
Service_open(s) ==
    /\ Step("service")
    /\ IF services[s].opened
       THEN /\ last' = SimpleCall("service.open", s, TRUE, Some(NoError))
            /\ UNCHANGED <<endpoints, services>>
       ELSE IF IsNull(services[s].endpoint)
       THEN /\ HasFree(endpoints)
            /\ Service_openEndpoint(s, Free(endpoints),
                  createEndpoint(endpoints, services, s),
                  [services EXCEPT ![s].endpoint = Some(Free(endpoints)),
                                   ![s].localEndpoint = TRUE])
       ELSE Service_openEndpoint(s, Val(services[s].endpoint), endpoints, services)
    /\ UNCHANGED <<restClient, directClient>>

\* RestService.close
Service_close(s) ==
    /\ Step("service")
    /\ ~IsNull(services[s].endpoint) => endpoints[Val(services[s].endpoint)].pc = "idle"
    /\ IF ~services[s].opened
       THEN /\ last' = SimpleCall("service.close", s, services[s].opened, Some(NoError))
            /\ UNCHANGED <<endpoints, services>>
       ELSE IF IsNull(services[s].endpoint)
       THEN /\ last' = SimpleCall("service.close", s, TRUE,
                          Some(Error("InvalidStateException", "NO_ENDPOINT", None)))
            /\ UNCHANGED <<endpoints, services>>
       ELSE IF services[s].localEndpoint
       THEN \E caught \in BOOLEAN, warnThrows \in BOOLEAN :
               IF close_escapes(endpoints[Val(services[s].endpoint)], caught, warnThrows)
               THEN /\ last' = Call("service.close", s, TRUE, None, None,
                                    Val(services[s].endpoint),
                                    {"endpoint.close", "throw"}, <<>>, <<>>)
                    /\ UNCHANGED <<endpoints, services>>
               ELSE /\ services' = [services EXCEPT ![s].opened = FALSE]
                    /\ endpoints' = collect(
                          [endpoints EXCEPT ![Val(services[s].endpoint)] = close(@)],
                          services')
                    /\ last' = Call("service.close", s, TRUE, Some(NoError),
                                    Some(NoError), Val(services[s].endpoint),
                                    {"endpoint.close"}, <<>>, <<>>)
       ELSE /\ services' = [services EXCEPT ![s].opened = FALSE]
            /\ UNCHANGED endpoints
            /\ last' = SimpleCall("service.close", s, services[s].opened, Some(NoError))
    /\ UNCHANGED <<restClient, directClient>>

\* The end of a step of HttpEndpoint.open on e for the caller of that open
\* (r is what the step did)
Endpoint_stepped(op, e, wasOpen, caller, queued, r) ==
    /\ services' = opened(services, caller, r.cb)
    /\ endpoints' = collect(r.eps, services')
    /\ last' = Call(op, e, wasOpen, r.cb, r.cb, e, r.calls, queued, r.registered)

\* HttpEndpoint.open, called by the user on the endpoint the references hold
Endpoint_open ==
    /\ Step("service")
    /\ endpoints[1].pc = "idle"
    /\ \E inner \in InnerResolve(endpoints[1].connection), throws \in BOOLEAN :
          Endpoint_stepped("endpoint.open", 1, endpoints[1].server, 0,
                           endpoints[1].registrations,
                           open(endpoints, services, 1, 0, inner, throws))
    /\ UNCHANGED <<restClient, directClient>>

\* HttpEndpoint.close, called by the user on the endpoint the references hold
Endpoint_close ==
    /\ Step("service")
    /\ endpoints[1].pc = "idle"
    /\ \E caught \in BOOLEAN, warnThrows \in BOOLEAN :
          IF close_escapes(endpoints[1], caught, warnThrows)
          THEN /\ last' = Call("endpoint.close", 1, endpoints[1].server, None, None,
                               1, {"throw"}, <<>>, <<>>)
               /\ UNCHANGED endpoints
          ELSE /\ endpoints' = [endpoints EXCEPT ![1] = close(@)]
               /\ last' = Call("endpoint.close", 1, endpoints[1].server, Some(NoError),
                               Some(NoError), 1, {}, <<>>, <<>>)
    /\ UNCHANGED <<services, restClient, directClient>>

\* The discovery service answers, on any endpoint that waits for it
Endpoint_resolved(e) ==
    /\ Step("service")
    /\ endpoints[e].pc = "resolving"
    /\ \E inner \in InnerResolve(endpoints[e].connection), throws \in BOOLEAN :
          Endpoint_stepped("endpoint.resolved", e, FALSE, endpoints[e].caller,
                           endpoints[e].queued,
                           open_resolved(endpoints, services, e, inner, throws))
    /\ UNCHANGED <<restClient, directClient>>

\* server.listen calls back, on any endpoint that waits for it
Endpoint_listened(e) ==
    /\ Step("service")
    /\ endpoints[e].pc = "listening"
    /\ \E ok \in BOOLEAN, inner \in InnerResolve(endpoints[e].connection),
          fails \in BOOLEAN :
          /\ fails => ok /\ CanFailToPublish(inner)
          /\ Endpoint_stepped("endpoint.listened", e, FALSE, endpoints[e].caller,
                              <<>>, open_listened(endpoints, e, ok, inner, fails))
    /\ UNCHANGED <<restClient, directClient>>

\* A call's record with the callback called n times
CalledBack(r, n) == [r EXCEPT !.cbs = n]

\* RestClient.open, the callback it hands to resolve, given the resolver's
\* answer out.  throws: restify.createJsonClient throws.  cbThrows: the
\* caller's callback throws when it is called with null; that call is
\* inside the try block, so the catch block drops the client and calls the
\* callback a second time, with the exception wrapped.
Client_resolved(same, out, throws, cbThrows) ==
    IF out.err # NoError
    THEN /\ restClient' = [restClient EXCEPT
                              !.connection = IF same THEN out.connection ELSE @]
         /\ last' = Call("client.open", 0, FALSE, Some(out.err), None, 0,
                         {"resolve"}, <<>>, <<>>)
    ELSE /\ restClient' = [restClient EXCEPT
                              !.connection = IF same THEN out.connection ELSE @,
                              !.uri = Val(out.connection).uri,
                              !.client = ~throws /\ ~cbThrows]
         /\ last' = CalledBack(
                        Call("client.open", 0, FALSE,
                             Some(IF throws \/ cbThrows
                                  THEN CannotConnect(Val(out.connection).uri)
                                  ELSE NoError),
                             None, 0, {"resolve", "createJsonClient"}, <<>>, <<>>),
                        IF ~throws /\ cbThrows THEN 2 ELSE 1)

\* RestClient.open
Client_open ==
    /\ Step("client")
    /\ IF restClient.client
       THEN /\ last' = SimpleCall("client.open", 0, TRUE, Some(NoError))
            /\ UNCHANGED restClient
       ELSE \E inner \in InnerResolve(restClient.connection), throws \in BOOLEAN,
               cbThrows \in BOOLEAN :
               Client_resolved(inner.same, resolve(inner.err, inner.connection),
                               throws, cbThrows)
    /\ UNCHANGED <<endpoints, services, directClient>>

\* RestClient.close
Client_close ==
    /\ Step("client")
    /\ restClient' = IF restClient.client
                     THEN [restClient EXCEPT !.client = FALSE, !.uri = None]
                     ELSE restClient
    /\ last' = SimpleCall("client.close", 0, restClient.client, Some(NoError))
    /\ UNCHANGED <<endpoints, services, directClient>>

\* DirectClient.setReferences: getOneRequired throws when the references
\* hold no controller, and the field keeps its value.
Direct_setReferences ==
    \E has \in BOOLEAN :
        /\ Step("direct")
        /\ directClient' = IF has THEN [directClient EXCEPT !.controller = TRUE]
                           ELSE directClient
        /\ last' = SimpleCall("direct.setReferences", 0, directClient.opened, None)
        /\ UNCHANGED <<endpoints, services, restClient>>

\* DirectClient.open
Direct_open ==
    /\ Step("direct")
    /\ IF directClient.opened
       THEN /\ last' = SimpleCall("direct.open", 0, directClient.opened, Some(NoError))
            /\ UNCHANGED directClient
       ELSE IF ~directClient.controller
       THEN /\ last' = SimpleCall("direct.open", 0, FALSE,
                          Some(ConnectionException("NO_CONTROLLER", None)))
            /\ UNCHANGED directClient
       ELSE /\ directClient' = [directClient EXCEPT !.opened = TRUE]
            /\ last' = SimpleCall("direct.open", 0, directClient.opened, Some(NoError))
    /\ UNCHANGED <<endpoints, services, restClient>>

\* DirectClient.close
Direct_close ==
    /\ Step("direct")
    /\ directClient' = [directClient EXCEPT !.opened = FALSE]
    /\ last' = SimpleCall("direct.close", 0, directClient.opened, Some(NoError))
    /\ UNCHANGED <<endpoints, services, restClient>>

LifeNext ==
    \/ \E s \in Services : Service_configure(s)
    \/ \E s \in Services : Service_setReferences(s)
    \/ \E s \in Services : Service_unsetReferences(s)
    \/ \E s \in Services : Service_open(s)
    \/ \E s \in Services : Service_close(s)
    \/ Endpoint_open
    \/ Endpoint_close
    \/ \E e \in EndpointIds : Endpoint_resolved(e)
    \/ \E e \in EndpointIds : Endpoint_listened(e)
    \/ Client_open
    \/ Client_close
    \/ Direct_setReferences
    \/ Direct_open
    \/ Direct_close

\* ------------------------------------------------------------------------
\* Specifications
\* ------------------------------------------------------------------------
\* The connection resolver alone, configured in every way
ResolverInit ==
    /\ resolverConnection \in {None} \cup {Some(c) : c \in ConfiguredConnections}
    /\ resolverCall = ResolverIdle
    /\ serverRoutes = {}
    /\ exchange = NoExchange
    /\ endpoints = InitialEndpoints(None)
    /\ services = [s \in Services |-> RestService]
    /\ restClient = RestClient(None)
    /\ directClient = DirectClient
    /\ last = NoCall
    /\ steps = 0
    /\ scenario = "service"
    /\ routeService = NoRouteService
    /\ mounted = <<>>
    /\ request = NoRequest
    /\ callSetup = NoCallSetup
    /\ restCall = NoRestCall

SpecResolver == ResolverInit /\ [][ResolverNext]_vars

\* Route dispatch and the response helpers alone, on a server with no routes
HttpInit ==
    /\ serverRoutes = {}
    /\ exchange = NoExchange
    /\ resolverConnection = None
    /\ resolverCall = ResolverIdle
    /\ endpoints = InitialEndpoints(None)
    /\ services = [s \in Services |-> RestService]
    /\ restClient = RestClient(None)
    /\ directClient = DirectClient
    /\ last = NoCall
    /\ steps = 0
    /\ scenario = "service"
    /\ routeService = NoRouteService
    /\ mounted = <<>>
    /\ request = NoRequest
    /\ callSetup = NoCallSetup
    /\ restCall = NoRestCall

SpecHttp == HttpInit /\ [][HttpNext]_vars

\* The life cycle of the endpoint, the services and the clients
Spec == LifeInit /\ [][LifeNext]_vars

\* The services that mount routes, built in every way
RoutesInit ==
    /\ routeService \in RouteServices
    /\ mounted = <<>>
    /\ request = NoRequest
    /\ callSetup = NoCallSetup
    /\ restCall = NoRestCall
    /\ serverRoutes = {}
    /\ exchange = NoExchange
    /\ resolverConnection = None
    /\ resolverCall = ResolverIdle
    /\ endpoints = InitialEndpoints(None)
    /\ services = [s \in Services |-> RestService]
    /\ restClient = RestClient(None)
    /\ directClient = DirectClient
    /\ last = NoCall
    /\ steps = 0
    /\ scenario = "service"

SpecRoutes == RoutesInit /\ [][RoutesNext]_vars

\* A REST client with a connection, every base route, few or many retries,
\* its server up or down
CallInit ==
    /\ callSetup \in {CallSetup(b, r, up) :
                         b \in BaseRoutes, r \in {0, MaxRetries}, up \in BOOLEAN}
    /\ restCall = NoRestCall
    /\ restClient = RestClient(Some(ConnectionParams(None, Some(HTTP), Some(HostA), 7, FALSE)))
    /\ routeService = NoRouteService
    /\ mounted = <<>>
    /\ request = NoRequest
    /\ serverRoutes = {}
    /\ exchange = NoExchange
    /\ resolverConnection = None
    /\ resolverCall = ResolverIdle
    /\ endpoints = InitialEndpoints(None)
    /\ services = [s \in Services |-> RestService]
    /\ directClient = DirectClient
    /\ last = NoCall
    /\ steps = 0
    /\ scenario = "client"

SpecCall == CallInit /\ [][CallNext]_vars

\* The same with the HTTP client at work: every attempt to connect ends
\* within the connect timeout, and the client reports the end of a request
SpecCallFair ==
    /\ CallInit
    /\ [][CallNext]_vars
    /\ WF_vars(Call_attempt)
    /\ WF_vars(Call_respond)

\* ------------------------------------------------------------------------
\* Properties of HttpConnectionResolver (under SpecResolver)
\* ------------------------------------------------------------------------
\* The connection the inner resolver delivered to the last resolve
Resolved == Val(resolverCall.before)

\* The last call was a resolve that was given a connection with no uri.
ResolvedWithoutUri ==
    /\ resolverCall.op = "resolve"
    /\ resolverCall.innerErr = NoError
    /\ ~IsNull(resolverCall.before)
    /\ IsNull(Resolved.uri)

\* C1: resolve of a connection that has no uri, whose protocol is absent or
\* "http", whose host h is set and whose port p is not 0 calls back with no
\* error and a connection whose uri is "http://" + h + ":" + p.
C1_ResolveBuildsUri ==
    (/\ ResolvedWithoutUri
     /\ Resolved.protocol \in {None, Some(HTTP)}
     /\ ~IsNull(Resolved.host)
     /\ Resolved.port # 0)
    => /\ resolverCall.err = NoError
       /\ ~IsNull(resolverCall.connection)
       /\ Val(resolverCall.connection).uri =
             Some(HTTP \o SLASHES \o Val(Resolved.host) \o <<":">>
                  \o IntToStr(Resolved.port))

\* A resolve built the uri of a two-digit port.
C1_Witness ==
    /\ ResolvedWithoutUri
    /\ Resolved.protocol = None
    /\ Resolved.host = Some(HostA)
    /\ Resolved.port = MaxPort
    /\ resolverCall.err = NoError
    /\ Val(resolverCall.connection).uri = Some(<<"h", "t", "t", "p", ":", "/", "/", "a", ":">>
                                                \o IntToStr(MaxPort))

\* The codes of the checks a connection without uri fails
FailedChecks(c) ==
    {code \in {"NO_HOST", "NO_PORT", "WRONG_PROTOCOL"} :
        \/ code = "NO_HOST" /\ IsNull(c.host)
        \/ code = "NO_PORT" /\ c.port = 0
        \/ code = "WRONG_PROTOCOL" /\ c.protocol \notin {None, Some(HTTP)}}

Route == Val(exchange.route)

Dispatched == ~IsNull(exchange.route)

\* The last request fails the schema of its route.
FailsSchema ==
    /\ Dispatched
    /\ ~IsNull(Route.schema)
    /\ \/ ~(Val(Route.schema).required \subseteq
              (exchange.req.params \cup (IF IsNull(exchange.req.body) THEN {} ELSE {"body"})))
       \/ /\ Val(Route.schema).checksBody
          /\ ~IsNull(exchange.req.body)
          /\ ~Val(exchange.req.body).valid

\* C3: a request that fails the schema of its route is answered by one
\* sendError (an error response) and the route's action is not called; with
\* no schema or a request that passes it the action is called exactly once.
C3_ValidationGuardsAction ==
    Dispatched =>
        IF FailsSchema
        THEN /\ exchange.sendErrors = 1
             /\ exchange.actions = 0
             /\ exchange.res.sent = 1
             /\ exchange.res.statusCode = 400
             /\ Val(exchange.res.body).kind = "error"
        ELSE exchange.actions = 1

\* A request with an invalid body was refused by the schema of its route.
C3_Witness ==
    /\ FailsSchema
    /\ Val(Route.schema).checksBody
    /\ exchange.req.body = Some(Value(2, FALSE))
    /\ exchange.sendErrors = 1
    /\ exchange.actions = 0

\* The action of the last request called the callback of the named helper.
Answered(helper) ==
    /\ Dispatched
    /\ exchange.actions = 1
    /\ Route.action = helper

\* C9: the callback of sendResult sends 204 with no body for no error and a
\* null result, 200 with the value as JSON for no error and a non-null
\* result, and the error response alone for an error.
C9_SendResult ==
    Answered("sendResult") =>
        /\ exchange.res.sent = 1
        /\ IF ~IsNull(exchange.err)
           THEN /\ Val(exchange.res.body).kind = "error"
                /\ exchange.res.statusCode = Default(Val(exchange.err).status, 500)
                /\ exchange.res.statusCode \notin {200, 204}
           ELSE IF IsNull(exchange.result)
           THEN /\ exchange.res.statusCode = 204
                /\ IsNull(exchange.res.body)
           ELSE /\ exchange.res.statusCode = 200
                /\ exchange.res.body = exchange.result

\* sendResult answered a null result with 204 and no body.
C9_Witness ==
    /\ Answered("sendResult")
    /\ IsNull(exchange.err)
    /\ IsNull(exchange.result)
    /\ exchange.res = [statusCode |-> 204, sent |-> 1, body |-> None]

\* C10: the callback of sendCreatedResult, called with no error, answers the
\* request with status 204 for a null result and with status 201 and the
\* value as JSON for a non-null result.
C10_SendCreatedResult ==
    (Answered("sendCreatedResult") /\ IsNull(exchange.err)) =>
        /\ exchange.res.sent = 1
        /\ IF IsNull(exchange.result)
           THEN exchange.res.statusCode = 204
           ELSE /\ exchange.res.statusCode = 201
                /\ exchange.res.body = exchange.result

\* ------------------------------------------------------------------------
\* Properties of the life cycle (under Spec)
\* ------------------------------------------------------------------------
Success == Some(NoError)

\* C4: open on a component that is already open calls back with success,
\* leaves its state unchanged and neither resolves the connection nor
\* creates a server or client nor binds; close on a component that is not
\* open calls back with success and leaves its state unchanged.  This for
\* RestService, HttpEndpoint, RestClient and DirectClient.
C4_RepeatedOpenClose ==
    [][/\ \A s \in Services :
            (/\ last'.id = s
             /\ \/ last'.op = "service.open" /\ services[s].opened
                \/ last'.op = "service.close" /\ ~services[s].opened)
            => /\ last'.cb = Success
               /\ last'.calls = {}
               /\ services' = services
               /\ endpoints' = endpoints
       /\ (\/ last'.op = "endpoint.open" /\ isOpen(endpoints[1])
           \/ last'.op = "endpoint.close" /\ ~isOpen(endpoints[1]))
          => /\ last'.cb = Success
             /\ last'.calls = {}
             /\ endpoints' = endpoints
       /\ (/\ last'.op = "service.open"
           /\ "endpoint.open" \in last'.calls
           /\ isOpen(endpoints[last'.ep]))
          => /\ last'.epCb = Success
             /\ last'.calls = {"endpoint.open"}
             /\ endpoints'[last'.ep] = endpoints[last'.ep]
       /\ (\/ last'.op = "client.open" /\ restClient.client
           \/ last'.op = "client.close" /\ ~restClient.client)
          => /\ last'.cb = Success
             /\ last'.calls = {}
             /\ restClient' = restClient
       /\ (\/ last'.op = "direct.open" /\ directClient.opened
           \/ last'.op = "direct.close" /\ ~directClient.opened)
          => /\ last'.cb = Success
             /\ directClient' = directClient
      ]_vars

\* A listening endpoint was opened again.
C4_Witness ==
    /\ last.op = "endpoint.open"
    /\ last.wasOpen
    /\ last.cb = Success
    /\ endpoints[1].listening
    /\ ~IsNull(endpoints[1].uri)

\* C5: a service whose endpoint was supplied through the references never
\* calls open or close on it, and its open and close leave the open state of
\* every endpoint it did not create as it was; the endpoint a service opens
\* or closes is one that this service created.
C5_EndpointOwnership ==
    [][\A s \in Services :
         (last'.op \in {"service.open", "service.close"} /\ last'.id = s)
         => /\ (last'.calls \cap {"endpoint.open", "endpoint.close"} # {})
               => /\ endpoints'[last'.ep].creator = s
                  /\ services[s].endpoint # Some(1)
            /\ \A e \in EndpointIds :
                  (endpoints[e].created /\ endpoints[e].creator # s)
                  => /\ endpoints'[e].server = endpoints[e].server
                     /\ endpoints'[e].listening = endpoints[e].listening
                     /\ endpoints'[e].pc = endpoints[e].pc
      ]_vars

\* A service that was open on the supplied endpoint was closed, and the
\* endpoint listens on.
C5_Witness ==
    /\ last.op = "service.close"
    /\ last.wasOpen
    /\ services[last.id].endpoint = Some(1)
    /\ last.calls = {}
    /\ endpoints[1].listening

\* The services of a list of registrations
Range(seq) == {seq[i] : i \in 1..Len(seq)}

\* C6: when HttpEndpoint.open calls server.listen, register() of every
\* registration that was in the list when open started, and whose service
\* still holds the endpoint, has completed, and its routes are mounted.
C6_RegistrationsBeforeListen ==
    "listen" \in last.calls
    => \A s \in Range(last.queued) :
          services[s].endpoint = Some(last.ep)
          => /\ s \in Range(last.registered)
             /\ s \in endpoints[last.ep].routes

\* C7 as claimed: every error HttpEndpoint.open calls back with is a
\* ConnectionException CANNOT_CONNECT whose detail is the attempted URI.
C7_EveryOpenFailureIsCannotConnect ==
    (last.ep # 0 /\ last.op # "service.close" /\ last.epCb \notin {None, Success})
    => /\ Val(last.epCb).type = "ConnectionException"
       /\ Val(last.epCb).code = "CANNOT_CONNECT"
       /\ ~IsNull(Val(last.epCb).detail)

\* HttpEndpoint.open called back with an error in the last step.
OpenFailed ==
    /\ last.op \in {"service.open", "endpoint.open", "endpoint.resolved",
                    "endpoint.listened"}
    /\ last.ep # 0
    /\ last.epCb \notin {None, Success}

\* C7, amended: when HttpEndpoint.open calls back with an error after the
\* connection was resolved and before the URI is published (the server's
\* construction or a registration threw, or the listen failed), the error is
\* a ConnectionException CANNOT_CONNECT whose detail is the endpoint's URI;
\* an error of the resolution or of the publishing is handed on as it is.
C7_OpenFailures ==
    OpenFailed
    => IF "createServer" \in last.calls
          \/ (last.op = "endpoint.listened" /\ "register" \notin last.calls)
       THEN /\ Val(last.epCb).type = "ConnectionException"
            /\ Val(last.epCb).code = "CANNOT_CONNECT"
            /\ ~IsNull(Val(last.epCb).detail)
            /\ endpoints[last.ep].created
               => Val(last.epCb).detail = endpoints[last.ep].uri
       ELSE /\ Val(last.epCb).type \in {"ConfigException", "DiscoveryError"}
            /\ Val(last.epCb).code # "CANNOT_CONNECT"

\* A failed listen was reported as CANNOT_CONNECT with the endpoint's URI.
C7_Witness ==
    /\ last.op = "endpoint.listened"
    /\ last.epCb = Some(CannotConnect(Some(HTTP \o SLASHES \o HostA \o <<":", "7">>)))
    /\ endpoints[last.ep].uri = Some(HTTP \o SLASHES \o HostA \o <<":", "7">>)

\* C8: DirectClient.open calls back with success only when the controller is
\* set, and else with ConnectionException NO_CONTROLLER, leaving isOpen()
\* false; this also for a client on which setReferences was never called.
C8_DirectOpenNeedsController ==
    last.op = "direct.open"
    => IF directClient.controller
       THEN last.cb = Success /\ directClient.opened
       ELSE /\ last.cb = Some(ConnectionException("NO_CONTROLLER", None))
            /\ ~directClient.opened

\* ------------------------------------------------------------------------
\* More properties of the response helpers (under SpecHttp)
\* ------------------------------------------------------------------------
\* The error the action of the last request handed to sendError, as read
\* by sendError: {} for null, the body for a restify error.
SentError ==
    unwrapError(IF IsNull(exchange.err) THEN ErrorObject(None, None, None)
                ELSE Val(exchange.err))

\* The action of the last request called sendError, itself or through a
\* helper's callback.
CalledSendError ==
    /\ Dispatched
    /\ exchange.actions = 1
    /\ Route.action = "sendError" \/ ~IsNull(exchange.err)

CommandPath(baseRoute, name) ==
    (IF IsEmptyRoute(baseRoute) THEN <<>>
     ELSE <<"/">> \o Unslashed(Val(baseRoute)))
        \o <<"/">> \o Unslashed(name)

\* The commandable service has an endpoint and its register() has run.
CommandableRegistered ==
    /\ routeService.kind = "commandable"
    /\ routeService.registered
    /\ routeService.endpoint

\* C12: register() of a commandable service mounts exactly one route per
\* command of the command set, in the set's order: the i-th is a POST route
\* whose handler executes the i-th command and whose path is the base route,
\* a slash and the command's name, no second slash when the name already
\* starts with one.
C12_OneRoutePerCommand ==
    CommandableRegistered =>
        /\ Len(mounted) = Len(routeService.commands)
        /\ \A i \in 1..Len(mounted) :
            /\ mounted[i].command = i
            /\ mounted[i].route.method = "post"
            /\ mounted[i].route.route =
                   CommandPath(routeService.baseRoute, routeService.commands[i])

\* A service with base route "d" mounted "/d/a" for its command "/a" and
\* "/d/b" for its command "b".
C12_Witness ==
    /\ CommandableRegistered
    /\ routeService.baseRoute = Some(<<"d">>)
    /\ routeService.commands = <<<<"/", "a">>, <<"b">>>>
    /\ mounted[1].route.route = <<"/", "d", "/", "a">>
    /\ mounted[2].route.route = <<"/", "d", "/", "b">>

\* The last request was a callCommand of a command of the registered service.
CalledCommand ==
    /\ CommandableRegistered
    /\ request.op = "callCommand"
    /\ \E i \in 1..Len(routeService.commands) :
           routeService.commands[i] = request.name

StatusPath(svc) ==
    (IF BaseOf(svc) = <<>> THEN <<>> ELSE <<"/">> \o BaseOf(svc))
        \o <<"/">> \o Unslashed(svc.route)

\* An opened heartbeat or status service was asked at the expected path.
AskedStatus ==
    /\ routeService.kind \in {"heartbeat", "status"}
    /\ routeService.registered
    /\ routeService.endpoint
    /\ request.op = "get"
    /\ request.path = StatusPath(routeService)

\* C18: a heartbeat or status service with route r and base route b, opened
\* with or without a prior setReferences, answers a GET at "/" + r, or at
\* "/" + b + "/" + r when b is not empty, with status 200 and a non-null
\* JSON body.
C18_StatusReachable ==
    AskedStatus =>
        /\ request.handled # 0
        /\ request.res.sent = 1
        /\ request.res.statusCode = 200
        /\ ~IsNull(request.res.body)

\* ------------------------------------------------------------------------
\* Properties of RestClient.call (under SpecCall)
\* ------------------------------------------------------------------------
\* The HTTP client has ended the request of a call that has a callback.
Responded ==
    /\ restCall.pc = "done"
    /\ ~IsNull(restCall.outcome)
    /\ restCall.hasCallback

\* C14: call maps the response to its callback. A 204 gives (null, null),
\* also when an error comes with it. Otherwise no error gives (null, body);
\* an error with a body gives the application exception rebuilt from the
\* body, with the error as its cause, and a null result; an error without a
\* body gives the error itself and a null result. The result is null
\* whenever the error is not.
C14_ResponseMapping ==
    Responded =>
        /\ ~IsNull(restCall.cb)
        /\ IsNull(restCall.thrown)
        /\ LET o == Val(restCall.outcome)
               err == Val(restCall.cb)[1]
               result == Val(restCall.cb)[2]
           IN  /\ o.statusCode = 204 => IsNull(err) /\ IsNull(result)
               /\ (o.statusCode # 204 /\ IsNull(o.err)) =>
                      IsNull(err) /\ result = o.data
               /\ (o.statusCode # 204 /\ ~IsNull(o.err) /\ ~IsNull(o.data)) =>
                      /\ ~IsNull(err)
                      /\ Val(err).kind = "ApplicationException"
                      /\ Val(err).code = Val(o.data).code
                      /\ Val(err).status = Val(o.data).status
                      /\ Val(err).cause = Some(Val(o.err).code)
                      /\ IsNull(result)
               /\ (o.statusCode # 204 /\ ~IsNull(o.err) /\ IsNull(o.data)) =>
                      err = o.err /\ IsNull(result)
               /\ ~IsNull(err) => IsNull(result)

\* A 204 that came with an error was reported as (null, null).
C14_Witness ==
    /\ Responded
    /\ Val(restCall.outcome).statusCode = 204
    /\ ~IsNull(Val(restCall.outcome).err)
    /\ restCall.cb = Some(<<None, None>>)

\* The last call named a verb that is none of get, head, post, put and
\* delete in any case.
CalledUnsupported ==
    /\ restCall.pc = "done"
    /\ toLowerCase(restCall.method) \notin {"get", "head", "post", "put", "delete"}

\* The error of an unsupported verb
IsUnsupportedMethod(err) ==
    /\ ~IsNull(err)
    /\ Val(err).kind = "UnknownException"
    /\ Val(err).code = "UNSUPPORTED_METHOD"

\* C15: a call with a verb other than get, head, post, put or delete,
\* compared without regard to case, sends no request; it reports an
\* UnknownException with code UNSUPPORTED_METHOD to the callback, with a null
\* result, or throws it when there is no callback.
C15_UnsupportedVerb ==
    CalledUnsupported =>
        /\ IsNull(restCall.sent)
        /\ restCall.attempts = 0
        /\ IsNull(restCall.outcome)
        /\ IF restCall.hasCallback
           THEN /\ ~IsNull(restCall.cb)
                /\ IsUnsupportedMethod(Val(restCall.cb)[1])
                /\ IsNull(Val(restCall.cb)[2])
                /\ IsNull(restCall.thrown)
           ELSE /\ IsNull(restCall.cb)
                /\ IsUnsupportedMethod(restCall.thrown)

\* An open client was called with "PATCH" and no callback, and threw.
C15_Witness ==
    /\ CalledUnsupported
    /\ restClient.client
    /\ restCall.method = "PATCH"
    /\ ~restCall.hasCallback
    /\ IsUnsupportedMethod(restCall.thrown)

\* The last call handed a request to the HTTP client.
SentRequest == ~IsNull(restCall.sent)

\* The pieces of the query that come from the parameters of the call, the
\* correlation id aside
GivenPieces ==
    IF IsNull(restCall.params) THEN {}
    ELSE {piece \in Range(Stringify(Val(restCall.params))) :
              piece[1] # "correlation_id"}

\* The pieces of the query that was sent
SentPieces ==
    IF IsNull(Val(restCall.sent).query) THEN {}
    ELSE Range(Val(Val(restCall.sent).query))

CallingUnreachable ==
    /\ restCall.pc = "sent"
    /\ restCall.hasCallback
    /\ ~callSetup.reachable

\* The call has called back with an error and a null result.
CalledBackWithError ==
    /\ restCall.pc = "done"
    /\ ~IsNull(restCall.cb)
    /\ ~IsNull(Val(restCall.cb)[1])
    /\ IsNull(Val(restCall.cb)[2])

\* C17: a REST client with finitely many retries whose server cannot be
\* reached opens without an attempt to connect, and each of its calls ends:
\* it calls back with a non-null error and a null result.
C17_CallToUnreachableEnds ==
    /\ [](restCall.pc = "idle" => restCall.attempts = 0)
    /\ (CallingUnreachable ~> CalledBackWithError)

\* An open client whose server is down made its first attempt and both of
\* its retries, then called back with the error of the connection.
C17_Witness ==
    /\ CalledBackWithError
    /\ restClient.client
    /\ ~callSetup.reachable
    /\ callSetup.retries = MaxRetries
    /\ restCall.attempts = MaxRetries + 1
    /\ Val(Val(restCall.cb)[1]).code = "ECONNREFUSED"

\* ------------------------------------------------------------------------
\* More properties of the life cycle (under Spec)
\* ------------------------------------------------------------------------
\* C19: when a service unsets its references, its endpoint's registration
\* list no longer holds the service and still holds every other
\* registration, so that the next open registers exactly the remaining ones.
C19_UnregisterRemovesOnlyThat ==
    [][\A s \in Services :
          (/\ ~IsNull(services[s].endpoint)
           /\ IsNull(services'[s].endpoint)
           /\ endpoints'[Val(services[s].endpoint)].created)
          => /\ s \notin Range(endpoints'[Val(services[s].endpoint)].registrations)
             /\ \A r \in Range(endpoints[Val(services[s].endpoint)].registrations) \ {s} :
                    r \in Range(endpoints'[Val(services[s].endpoint)].registrations)]_vars

\* C20: HttpEndpoint.close always ends well: it calls back with null and lets
\* no exception out, also when stopping the listener throws or when logging
\* fails, and afterwards the endpoint is not open.  This for a close called
\* on the endpoint and for the close a service calls on its own endpoint.
C20_CloseAlwaysSucceeds ==
    [][/\ last'.op = "endpoint.close"
          => /\ last'.cb = Success
             /\ "throw" \notin last'.calls
             /\ ~isOpen(endpoints'[1])
       /\ (last'.op = "service.close" /\ "endpoint.close" \in last'.calls)
          => /\ last'.epCb = Success
             /\ "throw" \notin last'.calls
      ]_vars

\* ------------------------------------------------------------------------
\* More properties of HttpConnectionResolver (under SpecResolver)
\* ------------------------------------------------------------------------
\* The last call was a resolve that called back without an error.
ResolvedWell ==
    /\ resolverCall.op = "resolve"
    /\ resolverCall.err = NoError

\* C28: a resolve that calls back without an error hands back a connection
\* with a non-empty uri that names a real host: the uri was supplied and not
\* empty, or the protocol is "http" (or absent), the host is set and the
\* port is not 0.  This for every configured uri, the empty string included.
C28_ResolvedUriNamesHost ==
    ResolvedWell =>
        /\ ~IsNull(resolverCall.connection)
        /\ Val(resolverCall.connection).uri \notin {None, Some(<<>>)}
        /\ \/ Resolved.uri \notin {None, Some(<<>>)}
           \/ /\ Resolved.protocol \in {None, Some(HTTP)}
              /\ ~IsNull(getHost(Resolved))
              /\ Resolved.port # 0

\* The last resolve called back without an error for a connection that came
\* with a uri that is not empty.
ResolvedWithUri ==
    /\ ResolvedWell
    /\ ~IsNull(resolverCall.before)
    /\ Resolved.uri \notin {None, Some(<<>>)}

\* C22: for a connection with an explicit, non-empty uri updateConnection
\* never changes the uri, and applying it to its own result changes nothing:
\* uri, protocol, host and port stay as the first application left them.
C22_UpdateIsIdempotent ==
    ResolvedWithUri =>
        /\ Val(resolverCall.connection).uri = Resolved.uri
        /\ updateConnection(Val(resolverCall.connection)) = Val(resolverCall.connection)

\* A connection configured with protocol http, host "a", port 7 and the uri
\* https://b.c/x got the parts of its uri, and a second resolve of the same
\* object left it as it was.
C22_Witness ==
    /\ ResolvedWithUri
    /\ resolverCall.same
    /\ resolverCall.connection = resolverCall.before
    /\ Resolved.uri = Some(HTTPS \o SLASHES \o HostB \o <<"/", "x">>)
    /\ Resolved.protocol = Some(HTTPS)
    /\ Resolved.host = Some(HostB)
    /\ Resolved.port = 0

\* The last call was a resolveAll whose inner resolver delivered a list.
ResolvedAll ==
    /\ resolverCall.op = "resolveAll"
    /\ resolverCall.innerErr = NoError

\* The indices of the delivered list whose connection fails a check
Invalid ==
    {j \in 1..Len(resolverCall.before) :
        /\ IsNull(resolverCall.before[j].uri)
        /\ FailedChecks(resolverCall.before[j]) # {}}

\* The first of them
FirstInvalid == CHOOSE i \in Invalid : \A j \in Invalid : i <= j

\* The j-th connection was updated: it has the uri it came with, or the uri
\* built from its parts
Updated(j) ==
    /\ resolverCall.connection[j].uri \notin {None, Some(<<>>)}
    /\ resolverCall.before[j].uri \notin {None, Some(<<>>)}
       => resolverCall.connection[j].uri = resolverCall.before[j].uri
    /\ IsNull(resolverCall.before[j].uri)
       => resolverCall.connection[j].uri =
              Some(HTTP \o SLASHES \o Val(resolverCall.before[j].host) \o <<":">>
                   \o IntToStr(resolverCall.before[j].port))

\* What C23 says of every list in common with its amendment: the callback
\* gets the whole list; without an invalid connection no error and every
\* connection updated; else the error of the first invalid connection, and
\* the connections before it updated
ResolvedAllUpToError ==
    /\ Len(resolverCall.connection) = Len(resolverCall.before)
    /\ Invalid = {} =>
          /\ resolverCall.err = NoError
          /\ \A j \in 1..Len(resolverCall.before) : Updated(j)
    /\ Invalid # {} =>
          /\ resolverCall.err.type = "ConfigException"
          /\ resolverCall.err.code \in FailedChecks(resolverCall.before[FirstInvalid])
          /\ \A j \in 1..(FirstInvalid - 1) : Updated(j)

\* C23 as claimed: resolveAll reports the first validation error with the
\* whole list, the connections before it updated, and still processes the
\* connections after it: the valid ones among them are updated.
C23_AllEntriesProcessed ==
    ResolvedAll =>
        /\ ResolvedAllUpToError
        /\ \A j \in 1..Len(resolverCall.before) :
               (Invalid # {} /\ j > FirstInvalid /\ j \notin Invalid) => Updated(j)

\* C23: resolveAll reports the first validation error with the whole list;
\* the connections before the first invalid one are updated, and that one
\* and every connection after it are left as they came.
C23_StopsUpdatingAtFirstError ==
    ResolvedAll =>
        /\ ResolvedAllUpToError
        /\ \A j \in 1..Len(resolverCall.before) :
               (Invalid # {} /\ j >= FirstInvalid)
                   => resolverCall.connection[j] = resolverCall.before[j]

\* Of a valid connection, one without host and another valid one the first
\* got its uri and the third did not, and the error was NO_HOST.
C23_Witness ==
    /\ ResolvedAll
    /\ Len(resolverCall.before) = 3
    /\ Invalid # {}
    /\ FirstInvalid = 2
    /\ resolverCall.err = ConfigException("NO_HOST", None)
    /\ resolverCall.connection[1].uri = Some(HTTP \o SLASHES \o HostA \o <<":", "7">>)
    /\ resolverCall.before[3] = ConnectionParams(None, None, Some(HostA), 7, FALSE)
    /\ IsNull(resolverCall.connection[3].uri)

\* ------------------------------------------------------------------------
\* The response helpers together (under SpecHttp)
\* ------------------------------------------------------------------------
\* The handler of the last request called the callback of a response helper.
CalledHelper ==
    /\ Dispatched
    /\ exchange.actions = 1
    /\ Route.action \in {"sendResult", "sendEmptyResult", "sendCreatedResult",
                         "sendDeletedResult"}

\* C27: every call of a callback of sendResult, sendEmptyResult,
\* sendCreatedResult or sendDeletedResult, for every error and every null or
\* non-null result, writes exactly one response.
C27_HelpersAnswerOnce ==
    CalledHelper => exchange.res.sent = 1

\* ------------------------------------------------------------------------
\* More properties of RestClient.call (under SpecCall)
\* ------------------------------------------------------------------------
\* The last call, with a supported verb and a callback, was made on a client
\* that is not open.
CalledClosed ==
    /\ restCall.pc = "done"
    /\ ~restClient.client
    /\ toLowerCase(restCall.method) \in {"get", "head", "post", "put", "delete"}
    /\ restCall.hasCallback

\* C29: a call with a supported verb on a client that is not open sends no
\* request and throws nothing: it hands an error to the callback.
C29_CallOnClosedClient ==
    CalledClosed =>
        /\ IsNull(restCall.sent)
        /\ IsNull(restCall.thrown)
        /\ ~IsNull(restCall.cb)
        /\ ~IsNull(Val(restCall.cb)[1])

\* ------------------------------------------------------------------------
\* More properties of the commandable service (under SpecRoutes)
\* ------------------------------------------------------------------------
\* The last request was served by the route of a command.
ServedCommand ==
    /\ request.op = "callCommand"
    /\ request.handled # 0

CompleteWithinCall ==
    {"client.open", "client.close", "direct.open", "direct.close",
     "endpoint.close", "service.close"}

\* C21: an open or a close calls its callback exactly once, on every path
\* and also when the callback throws.
C21_CallbackExactlyOnce ==
    last.op \in CompleteWithinCall => last.cbs = 1

\* C24: after an open of an endpoint called back with an error, isOpen() of
\* that endpoint is false (so that the next open builds and binds a server
\* again).
C24_FailedOpenLeavesClosed ==
    (/\ last.op \in {"endpoint.open", "endpoint.resolved", "endpoint.listened",
                     "service.open"}
     /\ last.ep # 0
     /\ ~IsNull(last.epCb)
     /\ Val(last.epCb) # NoError)
    => ~isOpen(endpoints[last.ep])

\* C25: while an endpoint is open, the routes of every service in its
\* registration list are mounted on its server, whether the service
\* registered before the open or after it.
C25_RegisteredIsMounted ==
    \A e \in EndpointIds :
        isOpen(endpoints[e])
        => \A s \in Range(endpoints[e].registrations) : s \in endpoints[e].routes

\* C26: close of an open RestService calls back with success and leaves
\* the service not open, whatever was called on the service before.
C26_OpenServiceCloses ==
    (last.op = "service.close" /\ last.wasOpen)
    => /\ last.cb = Success
       /\ ~services[last.id].opened

=============================================================================
